---- MODULE Spec2Model ----
(***************************************************************************)
(* A model of Markdown2Paper: the normalizer (preprocessMarkdown), the     *)
(* structural parser (parseMarkdown) and the paginated renderer            *)
(* (generatePdf with the APA formatter).                                   *)
(***************************************************************************)
EXTENDS Integers, Sequences, FiniteSets, TLC

VARIABLES
    \* ---- normalizer: preprocessMarkdown (src/src/utils/markdown-parser.ts)
    lines,          \* content.split(newline) of the document being scanned
    i,              \* loop index of the scan (1-based here, 0-based in the code)
    result,         \* result: string[]
    tableBlocks,    \* tableBlocks: string[][]
    inCodeBlock,    \* inCodeBlock flag
    inFrontmatter,  \* inFrontmatter flag
    how,            \* history: how[k] is the branch that consumed input line k
    npc,            \* "idle" | "scan" | "done" | "rescan" | "redone"
    first,          \* history: what the first pass returned
    \* ---- structural parser: parseMarkdown (src/src/utils/markdown-parser.ts)
    tree,           \* tree.children
    title,          \* title
    frontmatter,    \* frontmatter
    titleFoundInFrontmatter,
    citations,      \* citations: string[] (each key as its characters)
    references,     \* references: string[]
    ppc,            \* "idle" | "yaml" | "heading" | "tags" | "mark" | "citations"
                    \* | "references" | "done" | "threw"
    tree0,          \* history: tree.children as the grammar returned them
    \* ---- renderer: generatePdf and the APA formatter (src/src/pdf)
    variant,        \* "visit": pdf-generator.ts 125-221; "loop": the awaited for-of loop
    parsed,         \* parsedContent: title, content (root children), citations, references
    nodes,          \* the nodes the orchestrator iterates over, in order
    nodeIndex,      \* position of the orchestrator in nodes
    citationIndex,  \* position of the citations forEach
    y,              \* the local cursor y of generatePdf
    formatterY,     \* formatter.y, the cursor the formatter draws at
    pages,          \* number of pages of the jsPDF document
    drawn,          \* history: every draw call on the document, in order
    tasks,          \* the calls of async block renderers: node position -> frame
    queue,          \* microtask queue: suspended frames whose await has a value
    cur,            \* who is executing: "main", "loop" (the event loop), or a frame
    rpc,            \* position of generatePdf
    blob,           \* what doc.output("blob") captured, once it ran
    \* ---- two exports in a row, of a document and of the document with more in it
    extended,       \* the parsedContent of the second export, if there is one
    baseline,       \* history: the blob of the first export
    \* ---- the plugin settings and the failure of an export
    settings,       \* this.plugin.settings: selectedFormatStyle, margins
    imageResolver,  \* whether the formatter was given an image resolver
    lastEdit,       \* history: the last margin edit (side, text, margins before)
    error,          \* the Error generatePdf threw, if it did
    \* ---- renderTableWithInlineLatex (src/src/pdf/formatters/base-formatter.ts)
    tableNode,      \* node: the cell texts of the table, row by row, the head first
    cellRows,           \* head and body as scanCells leaves them
    scanAt,         \* position of scanCells: <<row, column>>
    latexCache,     \* latexCache: the sources that have a cached result
    cellRenderMap,  \* cellRenderMap: cell position -> segments
    resolverCalls,  \* history: the sources handed to latexRenderer.renderInline
    previousCalls,  \* history: resolverCalls of the render before this one
    cellDraws,      \* history: what didDrawCell drew for the cells of cellRenderMap
    tpc             \* "idle" | "scan" | "draw" | "done" | "redone"

nvars == <<lines, i, result, tableBlocks, inCodeBlock, inFrontmatter, how, npc, first>>

pvars == <<tree, title, frontmatter, titleFoundInFrontmatter, citations, references,
          ppc, tree0>>

rvars == <<variant, parsed, nodes, nodeIndex, citationIndex, y, formatterY, pages, drawn,
           tasks, queue, cur, rpc, blob>>

mvars == <<extended, baseline>>

xvars == <<settings, imageResolver, lastEdit, error>>

tvars == <<tableNode, cellRows, scanAt, latexCache, cellRenderMap, resolverCalls,
           previousCalls, cellDraws, tpc>>

vars == <<nvars, pvars, rvars, mvars, xvars, tvars>>

\* the parts of the program an action does not touch
NormOnly == UNCHANGED <<pvars, rvars, mvars, xvars, tvars>>
ParseOnly == UNCHANGED <<nvars, rvars, mvars, xvars, tvars>>
RenderOnly == UNCHANGED <<nvars, pvars, mvars, xvars, tvars>>

(***************************************************************************)
(* settings and format styles                                              *)
(***************************************************************************)
\* a length in inches, counted in tenths of an inch
Inches(whole, tenths) == whole * 10 + tenths

\* Object.values(FormatStyle)
FormatStyle == <<"APA", "MLA">>

DEFAULT_SETTINGS ==
    [selectedFormatStyle |-> "APA",
     margins |-> [top |-> Inches(1, 0), right |-> Inches(1, 0),
                  bottom |-> Inches(1, 0), left |-> Inches(1, 0)]]

\* the styles the switch on settings.selectedFormatStyle has a case for
HasFormatter(style) == style = "APA"

getAvailableFormats == FormatStyle

isFormatSupported(formatStyle) == \E n \in DOMAIN FormatStyle : FormatStyle[n] = formatStyle

\* the Error generatePdf throws when no formatter is created: the style it
\* names and the formats it lists
Failure(v, style) ==
    [what |-> "formatter", style |-> style,
     formats |-> IF v = "loop" THEN getAvailableFormats ELSE <<>>]

(***************************************************************************)
(* Bounds                                                                  *)
(***************************************************************************)
MaxLines == 4

(***************************************************************************)
(* Lines.  A line is a string of a small alphabet; the string operations   *)
(* the normalizer applies to a line are given by what they return on it.   *)
(***************************************************************************)
InputLines ==
    { "", " ", "---", "[fence]", "text", "a|b", "c|d", "---|---",
      "p $$m$$ q", "![[i m]]" }

\* String.prototype.trim
Trim(l) == IF l = " " THEN "" ELSE l

\* trimmedLine.startsWith(fence); "[fence]" stands for the line of three backquotes
StartsWithFence(l) == Trim(l) = "[fence]"

\* line.includes("|")
IncludesPipe(l) ==
    l \in {"a|b", "c|d", "---|---", "![[i m]]|x", "| a | b |", "|c|", "c|d|e"}

\* tableDividerPattern.test(next)
MatchesDivider(l) == l = "---|---"

\* line.replace(obsidianEmbedPattern, ...): ![[target|alt]] -> ![alt](target),
\* blanks of the target percent-encoded
RewriteEmbeds(l) ==
    IF l = "![[i m]]" THEN "![](i%20m)"
    ELSE IF l = "![[i m]]|x" THEN "![](i%20m)|x"
    ELSE l

\* an expansion that would not push what remains after the last span
expandWithoutRemainder(l) ==
    IF l = "p $$m$$ q" THEN <<"p", "", "$$m$$", "">>
    ELSE IF l = "$$m$$" THEN <<"", "$$m$$", "">>
    ELSE <<l>>

\* expandDisplayMathInLine
expandDisplayMathInLine(l) ==
    IF l = "p $$m$$ q" THEN <<"p", "", "$$m$$", "", "q">>
    ELSE IF l = "$$m$$" THEN <<"", "$$m$$", "">>
    ELSE <<l>>

\* the placeholder line [[[TABLE_k]]], k = tableBlocks.length
Placeholder(k) == "[[[TABLE_" \o ToString(k) \o "]]]"

\* lines[index] || ""   (index is 1-based here)
LineAt(ls, k) == IF k \in 1..Len(ls) THEN ls[k] ELSE ""

Last(s) == s[Len(s)]

\* a paragraph break test that would not look at the last emitted line
NeedsBreakAlways(res) == Len(res) > 0

\* result.length > 0 && result[result.length - 1]?.trim() !== ""
NeedsBreak(res) == Len(res) > 0 /\ Trim(Last(res)) # ""

\* content.split(newline) of result.join(newline): no line holds a newline, so the
\* round trip returns the lines, except that the empty list joins to "" and
\* "" splits to one empty line.
SplitJoin(res) == IF res = <<>> THEN <<"">> ELSE res

(***************************************************************************)
(* preprocessMarkdown: one action per branch of the scan loop              *)
(***************************************************************************)
Scanning == npc \in {"scan", "rescan"} /\ i <= Len(lines)

\* a table start that would not look at the next line
isTableStartMissingDivider(ls, index) == IncludesPipe(LineAt(ls, index))

isTableStart(ls, index) ==
    /\ IncludesPipe(LineAt(ls, index))
    /\ MatchesDivider(LineAt(ls, index + 1))

\* the content lines pushed for one normal line (lines 160-183)
RECURSIVE PushExpanded(_, _)
PushExpanded(res, exp) ==
    IF exp = <<>> THEN res
    ELSE LET e == Head(exp) IN
         IF Trim(e) = ""
         THEN PushExpanded(IF NeedsBreak(res) THEN Append(res, "") ELSE res, Tail(exp))
         ELSE PushExpanded(
                  Append(IF NeedsBreak(res) THEN Append(res, "") ELSE res, e),
                  Tail(exp))

\* index after the last row of the table starting at index (the loop on j)
RECURSIVE TableEnd(_, _)
TableEnd(ls, j) ==
    IF j > Len(ls) THEN j
    ELSE IF Trim(ls[j]) = "" THEN j
    ELSE IF ~IncludesPipe(ls[j]) THEN j
    ELSE TableEnd(ls, j + 1)

Consume(k, tag) == how' = how \o [n \in 1..k |-> tag]

ScanFrontmatterOpen ==
    /\ Scanning
    /\ i = 1 /\ Trim(lines[i]) = "---"
    /\ inFrontmatter' = TRUE
    /\ result' = Append(result, lines[i])
    /\ i' = i + 1
    /\ Consume(1, "fmOpen")
    /\ UNCHANGED <<lines, tableBlocks, inCodeBlock, npc, first>>
    /\ NormOnly

ScanFrontmatterLine ==
    /\ Scanning
    /\ ~(i = 1 /\ Trim(lines[i]) = "---")
    /\ inFrontmatter
    /\ IF Trim(lines[i]) = "---"
       THEN /\ inFrontmatter' = FALSE
            /\ result' = result \o <<lines[i], "">>
       ELSE /\ inFrontmatter' = inFrontmatter
            /\ result' = Append(result, lines[i])
    /\ i' = i + 1
    /\ Consume(1, "fm")
    /\ UNCHANGED <<lines, tableBlocks, inCodeBlock, npc, first>>
    /\ NormOnly

\* a scan that would look for code fences before it looks at the
\* front-matter flag
NormalModeBeforeFrontmatter == Scanning /\ ~(i = 1 /\ Trim(lines[i]) = "---")

NormalMode == Scanning /\ ~(i = 1 /\ Trim(lines[i]) = "---") /\ ~inFrontmatter

ScanFence ==
    /\ NormalMode
    /\ StartsWithFence(lines[i])
    /\ inCodeBlock' = ~inCodeBlock
    /\ result' = Append(result, lines[i])
    /\ i' = i + 1
    /\ Consume(1, "fence")
    /\ UNCHANGED <<lines, tableBlocks, inFrontmatter, npc, first>>
    /\ NormOnly

ScanCodeLine ==
    /\ NormalMode
    /\ ~StartsWithFence(lines[i])
    /\ inCodeBlock
    /\ result' = Append(result, lines[i])
    /\ i' = i + 1
    /\ Consume(1, "code")
    /\ UNCHANGED <<lines, tableBlocks, inCodeBlock, inFrontmatter, npc, first>>
    /\ NormOnly

ContentMode == NormalMode /\ ~StartsWithFence(lines[i]) /\ ~inCodeBlock

ScanBlank ==
    /\ ContentMode
    /\ Trim(lines[i]) = ""
    /\ i' = i + 1
    /\ Consume(1, "blank")
    /\ UNCHANGED <<lines, result, tableBlocks, inCodeBlock, inFrontmatter, npc, first>>
    /\ NormOnly

ScanTable ==
    /\ ContentMode
    /\ Trim(lines[i]) # ""
    /\ isTableStart(lines, i)
    /\ LET j == TableEnd(lines, i + 2)
           tableLines == <<RewriteEmbeds(lines[i]), LineAt(lines, i + 1)>>
                         \o [n \in 1..(j - i - 2) |-> RewriteEmbeds(lines[i + 1 + n])]
       IN /\ result' = Append(IF NeedsBreak(result) THEN Append(result, "") ELSE result,
                              Placeholder(Len(tableBlocks)))
          /\ tableBlocks' = Append(tableBlocks, tableLines)
          /\ i' = j
          /\ how' = how \o <<"tableStart">> \o [n \in 1..(j - i - 1) |-> "tableRow"]
    /\ UNCHANGED <<lines, inCodeBlock, inFrontmatter, npc, first>>
    /\ NormOnly

ScanContent ==
    /\ ContentMode
    /\ Trim(lines[i]) # ""
    /\ ~isTableStart(lines, i)
    /\ result' = PushExpanded(result, expandDisplayMathInLine(RewriteEmbeds(lines[i])))
    /\ i' = i + 1
    /\ Consume(1, "content")
    /\ UNCHANGED <<lines, tableBlocks, inCodeBlock, inFrontmatter, npc, first>>
    /\ NormOnly

\* return { content: result.join(newline), tableBlocks }
ScanReturn ==
    /\ npc \in {"scan", "rescan"}
    /\ i > Len(lines)
    /\ npc' = IF npc = "scan" THEN "done" ELSE "redone"
    /\ first' = IF npc = "scan" THEN [content |-> SplitJoin(result), tableBlocks |-> tableBlocks]
                ELSE first
    /\ UNCHANGED <<lines, i, result, tableBlocks, inCodeBlock, inFrontmatter, how>>
    /\ NormOnly

\* preprocessMarkdown called on the content the first call returned
Renormalize ==
    /\ npc = "done"
    /\ npc' = "rescan"
    /\ lines' = first.content
    /\ i' = 1
    /\ result' = <<>>
    /\ tableBlocks' = <<>>
    /\ inCodeBlock' = FALSE
    /\ inFrontmatter' = FALSE
    /\ how' = <<>>
    /\ UNCHANGED first
    /\ NormOnly

\* no table with formulas is being rendered
TableIdle ==
    /\ tableNode = <<>>
    /\ cellRows = <<>>
    /\ scanAt = <<1, 1>>
    /\ latexCache = {}
    /\ cellRenderMap = <<>>
    /\ resolverCalls = <<>>
    /\ previousCalls = <<>>
    /\ cellDraws = <<>>
    /\ tpc = "idle"

\* the renderer at rest (specifications of the other components)
RenderIdle ==
    /\ TableIdle
    /\ variant = "loop"
    /\ parsed = [title |-> "", content |-> <<>>, citations |-> <<>>, references |-> <<>>]
    /\ nodes = <<>>
    /\ nodeIndex = 1
    /\ citationIndex = 1
    /\ y = 0
    /\ formatterY = 0
    /\ pages = 0
    /\ drawn = <<>>
    /\ tasks = <<>>
    /\ queue = <<>>
    /\ cur = [who |-> "loop", id |-> 0]
    /\ rpc = "idle"
    /\ blob = <<>>
    /\ settings = DEFAULT_SETTINGS
    /\ imageResolver = FALSE
    /\ lastEdit = <<>>
    /\ error = <<>>
    /\ extended = <<>>
    /\ baseline = <<>>

\* the parser at rest (specifications of the other components)
ParseIdle ==
    /\ tree = <<>>
    /\ title = ""
    /\ frontmatter = <<>>
    /\ titleFoundInFrontmatter = FALSE
    /\ citations = <<>>
    /\ references = <<>>
    /\ ppc = "idle"
    /\ tree0 = <<>>

RECURSIVE SeqsUpTo(_, _)
SeqsUpTo(S, n) ==
    IF n = 0 THEN {<<>>}
    ELSE LET shorter == SeqsUpTo(S, n - 1)
         IN shorter \cup {Append(s, x) : s \in {t \in shorter : Len(t) = n - 1}, x \in S}

Documents == SeqsUpTo(InputLines, MaxLines) \ {<<>>}

InitNorm ==
    /\ lines \in Documents
    /\ i = 1
    /\ result = <<>>
    /\ tableBlocks = <<>>
    /\ inCodeBlock = FALSE
    /\ inFrontmatter = FALSE
    /\ how = <<>>
    /\ npc = "scan"
    /\ first = [content |-> <<>>, tableBlocks |-> <<>>]
    /\ ParseIdle
    /\ RenderIdle

NextNorm ==
    \/ ScanFrontmatterOpen
    \/ ScanFrontmatterLine
    \/ ScanFence
    \/ ScanCodeLine
    \/ ScanBlank
    \/ ScanTable
    \/ ScanContent
    \/ ScanReturn
    \/ Renormalize

SpecNorm == InitNorm /\ [][NextNorm]_vars

\* documents with tables: rows with an embed in a cell, and a line that reads
\* like the placeholder of the first table
MaxTableLines == 4

TableInputLines ==
    { "", "---", "[fence]", "text", "a|b", "c|d", "---|---", "![[i m]]|x",
      "[[[TABLE_0]]]" }

TableDocuments == SeqsUpTo(TableInputLines, MaxTableLines) \ {<<>>}

InitTable ==
    /\ lines \in TableDocuments
    /\ i = 1
    /\ result = <<>>
    /\ tableBlocks = <<>>
    /\ inCodeBlock = FALSE
    /\ inFrontmatter = FALSE
    /\ how = <<>>
    /\ npc = "scan"
    /\ first = [content |-> <<>>, tableBlocks |-> <<>>]
    /\ ParseIdle
    /\ RenderIdle

SpecTable == InitTable /\ [][NextNorm]_vars

\* the scan under fair scheduling: a run of preprocessMarkdown that is never
\* stopped from outside takes its next step
MaxScanLines == 3

ScanInputLines ==
    { "", "---", "[fence]", "text", "![[i m]]|x", "---|---", "p $$m$$ q", "![[i m]]" }

InitScan ==
    /\ lines \in SeqsUpTo(ScanInputLines, MaxScanLines) \ {<<>>}
    /\ i = 1
    /\ result = <<>>
    /\ tableBlocks = <<>>
    /\ inCodeBlock = FALSE
    /\ inFrontmatter = FALSE
    /\ how = <<>>
    /\ npc = "scan"
    /\ first = [content |-> <<>>, tableBlocks |-> <<>>]
    /\ ParseIdle
    /\ RenderIdle

SpecScanFair == InitScan /\ [][NextNorm]_vars /\ WF_vars(NextNorm)

(***************************************************************************)
(* parseMarkdown: the steps layered on the grammar's tree                  *)
(***************************************************************************)
MaxBody == 3

\* what the external renderers return for a node (latexRenderer, autoTable);
\* nothing for the nodes they are not asked about
NoMeasure == [res |-> "none", width |-> 0, height |-> 0]

\* an mdast node: the fields of the node the program reads
Node(tp, v, ch, dp) ==
    [type |-> tp, value |-> v, children |-> ch, depth |-> dp, ordered |-> FALSE,
     data |-> [isReferenceSection |-> FALSE], measure |-> NoMeasure]

Text(v) == Node("text", v, <<>>, 0)
Strong(ch) == Node("strong", "", ch, 0)
Heading(dp, ch) == Node("heading", "", ch, dp)
Paragraph(ch) == Node("paragraph", "", ch, 0)
Yaml(v) == Node("yaml", v, <<>>, 0)

\* the front-matter blocks of the model: a title, an empty title, no title
\* field, and a block that is not valid YAML
YamlNodes == {Yaml("title: X"), Yaml("title: ''"), Yaml("author: A"), Yaml("title: [")}

\* the body nodes of the model
BodyNodes ==
    { Heading(1, <<Text("Intro")>>),
      Heading(1, <<Strong(<<Text("Bold")>>), Text(" rest")>>),
      Heading(1, <<Text("Hello "), Strong(<<Text("World")>>)>>),
      Heading(1, <<>>),
      Heading(2, <<Text("Method")>>),
      Paragraph(<<Text("body")>>),
      Paragraph(<<Text("#tag")>>) }

\* trees the grammar returns: a yaml node, if any, comes first
Trees ==
    LET bodies == SeqsUpTo(BodyNodes, MaxBody)
    IN bodies \cup {<<yn>> \o b : yn \in YamlNodes, b \in bodies}

\* js-yaml load(yamlNode.value): the mapping, or an exception
Load(v) ==
    IF v = "title: X" THEN [threw |-> FALSE, data |-> ("title" :> "X")]
    ELSE IF v = "title: ''" THEN [threw |-> FALSE, data |-> ("title" :> "")]
    ELSE IF v = "author: A" THEN [threw |-> FALSE, data |-> ("author" :> "A")]
    ELSE [threw |-> TRUE, data |-> <<>>]

\* if (frontmatter.title): the field is there and is not the empty string
Truthy(fm, key) == key \in DOMAIN fm /\ fm[key] # ""

\* OBSIDIAN_TAG_PATTERN.test(text)
MatchesTagPattern(v) == v = "#tag"

isObsidianTagParagraph(node) ==
    /\ node.type = "paragraph"
    /\ Len(node.children) = 1
    /\ node.children[1].type = "text"
    /\ MatchesTagPattern(node.children[1].value)

\* tree.children.find(node => node.type === "yaml")
YamlIndex(t) ==
    LET S == {k \in 1..Len(t) : t[k].type = "yaml"}
    IN IF S = {} THEN 0 ELSE CHOOSE k \in S : \A m \in S : k <= m

\* the findIndex test of lines 280-287
IsTitleHeading(node) ==
    /\ node.type = "heading"
    /\ node.depth = 1
    /\ Len(node.children) > 0
    /\ node.children[1].type = "text"

firstH1Index(t) ==
    LET S == {k \in 1..Len(t) : IsTitleHeading(t[k])}
    IN IF S = {} THEN 0 ELSE CHOOSE k \in S : \A m \in S : k <= m

\* tree.children.splice(index, 1)
Splice(t, k) == [n \in 1..(Len(t) - 1) |-> IF n < k THEN t[n] ELSE t[n + 1]]

\* a parser that would take the heading whatever the front-matter says
UseHeadingTitleAlways(found) == TRUE

\* if (!titleFoundInFrontmatter)
UseHeadingTitle(found) == ~found

\* lines 265-277
LoadFrontmatter ==
    /\ ppc = "yaml"
    /\ LET yi == YamlIndex(tree)
           loaded == IF yi = 0 THEN [threw |-> TRUE, data |-> <<>>] ELSE Load(tree[yi].value)
       IN /\ frontmatter' = IF loaded.threw THEN <<>> ELSE loaded.data
          /\ IF ~loaded.threw /\ Truthy(loaded.data, "title")
             THEN title' = loaded.data["title"] /\ titleFoundInFrontmatter' = TRUE
             ELSE UNCHANGED <<title, titleFoundInFrontmatter>>
    /\ ppc' = "heading"
    /\ UNCHANGED <<tree, tree0, citations, references>>
    /\ ParseOnly

\* lines 279-295
TitleFromHeading ==
    /\ ppc = "heading"
    /\ IF UseHeadingTitle(titleFoundInFrontmatter) /\ firstH1Index(tree) # 0
       THEN /\ title' = tree[firstH1Index(tree)].children[1].value
            /\ tree' = Splice(tree, firstH1Index(tree))
       ELSE UNCHANGED <<title, tree>>
    /\ ppc' = "tags"
    /\ UNCHANGED <<frontmatter, titleFoundInFrontmatter, tree0, citations, references>>
    /\ ParseOnly

\* line 298
RemoveTagParagraphs ==
    /\ ppc = "tags"
    /\ tree' = SelectSeq(tree, LAMBDA node : ~isObsidianTagParagraph(node))
    /\ ppc' = "mark"
    /\ UNCHANGED <<title, frontmatter, titleFoundInFrontmatter, tree0, citations, references>>
    /\ ParseOnly

\* mdast nodes of lists, emphasis and code
MdEmphasis(ch) == Node("emphasis", "", ch, 0)
MdInlineCode(v) == Node("inlineCode", v, <<>>, 0)
MdCode(v) == Node("code", v, <<>>, 0)
MdListItem(ch) == Node("listItem", "", ch, 0)
MdList(ch) == Node("list", "", ch, 0)

\* the node types of mdast that have no children property
LeafTypes ==
    {"text", "inlineCode", "code", "math", "inlineMath", "yaml", "html", "image",
     "thematicBreak", "break"}

HasChildren(node) == node.type \notin LeafTypes

\* the characters of the strings of the model (a string is opaque to the
\* operators of the language, its characters are not)
Chars(v) ==
    CASE v = "references" -> <<"r", "e", "f", "e", "r", "e", "n", "c", "e", "s">>
      [] v = "reference" -> <<"r", "e", "f", "e", "r", "e", "n", "c", "e">>
      [] v = "citations" -> <<"c", "i", "t", "a", "t", "i", "o", "n", "s">>
      [] v = "bibliography" ->
           <<"b", "i", "b", "l", "i", "o", "g", "r", "a", "p", "h", "y">>
      [] v = "works cited" -> <<"w", "o", "r", "k", "s", " ", "c", "i", "t", "e", "d">>
      [] v = "work cited" -> <<"w", "o", "r", "k", " ", "c", "i", "t", "e", "d">>
      [] v = "References" -> <<"R", "e", "f", "e", "r", "e", "n", "c", "e", "s">>
      [] v = "BIBLIOGRAPHY" ->
           <<"B", "I", "B", "L", "I", "O", "G", "R", "A", "P", "H", "Y">>
      [] v = "Method" -> <<"M", "e", "t", "h", "o", "d">>
      [] v = "Intro" -> <<"I", "n", "t", "r", "o">>
      [] v = " rest" -> <<" ", "r", "e", "s", "t">>
      [] v = "Hello " -> <<"H", "e", "l", "l", "o", " ">>
      [] v = "Bold" -> <<"B", "o", "l", "d">>
      [] v = "World" -> <<"W", "o", "r", "l", "d">>
      [] v = "body" -> <<"b", "o", "d", "y">>
      [] v = "#tag" -> <<"#", "t", "a", "g">>
      [] v = "see [@smith2020] and [@lee99]" ->
           <<"s", "e", "e", " ", "[", "@", "s", "m", "i", "t", "h", "2", "0", "2", "0",
             "]", " ", "a", "n", "d", " ", "[", "@", "l", "e", "e", "9", "9", "]">>
      [] v = "[@a] then [@a]" ->
           <<"[", "@", "a", "]", " ", "t", "h", "e", "n", " ", "[", "@", "a", "]">>
      [] v = "[@b]" -> <<"[", "@", "b", "]">>
      [] v = "[@] [@a" -> <<"[", "@", "]", " ", "[", "@", "a">>
      [] v = "Entry one" -> <<"E", "n", "t", "r", "y", " ", "o", "n", "e">>
      [] v = "Entry two" -> <<"E", "n", "t", "r", "y", " ", "t", "w", "o">>
      [] v = "Smith. " -> <<"S", "m", "i", "t", "h", ".", " ">>
      [] v = "Title" -> <<"T", "i", "t", "l", "e">>
      [] v = ". Pub" -> <<".", " ", "P", "u", "b">>
      [] v = "a|b" -> <<"a", "|", "b">>
      [] v = "| a | b |" -> <<"|", " ", "a", " ", "|", " ", "b", " ", "|">>
      [] v = "c|d" -> <<"c", "|", "d">>
      [] v = "|c|" -> <<"|", "c", "|">>
      [] v = "c|d|e" -> <<"c", "|", "d", "|", "e">>
      [] v = "---|---" -> <<"-", "-", "-", "|", "-", "-", "-">>
      [] v = "text" -> <<"t", "e", "x", "t">>
      [] v = "[[[TABLE_0]]]" -> <<"[", "[", "[", "T", "A", "B", "L", "E", "_", "0", "]", "]", "]">>
      [] v = "[[[TABLE_1]]]" -> <<"[", "[", "[", "T", "A", "B", "L", "E", "_", "1", "]", "]", "]">>
      [] v = "[[[TABLE_5]]]" -> <<"[", "[", "[", "T", "A", "B", "L", "E", "_", "5", "]", "]", "]">>
      [] v = "[[[TABLE_" -> <<"[", "[", "[", "T", "A", "B", "L", "E", "_">>
      [] v = "a" -> <<"a">>
      [] v = "b" -> <<"b">>
      [] v = "c" -> <<"c">>
      [] v = "d" -> <<"d">>
      [] v = "e" -> <<"e">>
      [] v = "---" -> <<"-", "-", "-">>
      [] v = " " -> <<" ">>
      [] v = "[fence]" -> <<"[", "f", "e", "n", "c", "e", "]">>
      [] v = "p $$m$$ q" -> <<"p", " ", "$", "$", "m", "$", "$", " ", "q">>
      [] v = "$$m$$" -> <<"$", "$", "m", "$", "$">>
      [] v = "p" -> <<"p">>
      [] v = "q" -> <<"q">>
      [] v = "![[i m]]" -> <<"!", "[", "[", "i", " ", "m", "]", "]">>
      [] v = "![](i%20m)" -> <<"!", "[", "]", "(", "i", "%", "2", "0", "m", ")">>
      [] v = "![[i m]]|x" -> <<"!", "[", "[", "i", " ", "m", "]", "]", "|", "x">>
      [] v = "![](i%20m)|x" ->
           <<"!", "[", "]", "(", "i", "%", "2", "0", "m", ")", "|", "x">>
      [] v = "" -> <<>>

UpperCase ==
    <<"A", "B", "C", "D", "E", "F", "G", "H", "I", "J", "K", "L", "M",
      "N", "O", "P", "Q", "R", "S", "T", "U", "V", "W", "X", "Y", "Z">>

LowerCase ==
    <<"a", "b", "c", "d", "e", "f", "g", "h", "i", "j", "k", "l", "m",
      "n", "o", "p", "q", "r", "s", "t", "u", "v", "w", "x", "y", "z">>

\* String.prototype.toLowerCase
toLowerCase(chars) ==
    [n \in 1..Len(chars) |->
        IF \E u \in DOMAIN UpperCase : UpperCase[u] = chars[n]
        THEN LowerCase[CHOOSE u \in DOMAIN UpperCase : UpperCase[u] = chars[n]]
        ELSE chars[n]]

\* String.prototype.trim
TrimChars(chars) ==
    LET ink == {n \in 1..Len(chars) : chars[n] # " "}
    IN IF ink = {} THEN <<>>
       ELSE SubSeq(chars, CHOOSE n \in ink : \A m \in ink : n <= m,
                          CHOOSE n \in ink : \A m \in ink : n >= m)

REFERENCE_SECTION_KEYWORDS ==
    { Chars("references"), Chars("reference"), Chars("citations"),
      Chars("bibliography"), Chars("works cited"), Chars("work cited") }

\* .map(child => child.value).join("")
RECURSIVE JoinChars(_)
JoinChars(ns) ==
    IF ns = <<>> THEN <<>> ELSE Chars(Head(ns).value) \o JoinChars(Tail(ns))

\* lines 303-308: the text the tagging pass compares
taggingText(node) ==
    TrimChars(toLowerCase(JoinChars(
        SelectSeq(node.children, LAMBDA child : child.type = "text"))))

\* lines 334-339: the text the extraction pass compares
referenceText(node) ==
    TrimChars(toLowerCase(JoinChars(
        SelectSeq(node.children, LAMBDA child : child.type = "text"))))

\* visit(tree, "heading", ...) of lines 301-315: every heading of the tree,
\* at any depth and at any nesting
RECURSIVE visitHeadings(_)
visitHeadings(ns) ==
    [n \in 1..Len(ns) |->
        LET node == ns[n]
            tagged == /\ node.type = "heading"
                      /\ Len(node.children) > 0
                      /\ taggingText(node) \in REFERENCE_SECTION_KEYWORDS
        IN [node EXCEPT !.data = IF tagged THEN [isReferenceSection |-> TRUE] ELSE @,
                        !.children = visitHeadings(@)]]

MarkReferenceSections ==
    /\ ppc = "mark"
    /\ tree' = visitHeadings(tree)
    /\ ppc' = "citations"
    /\ UNCHANGED <<title, frontmatter, titleFoundInFrontmatter, tree0, citations, references>>
    /\ ParseOnly

\* the regular expression of line 321 at position p: the index of the
\* bracket that closes the lazy group, 0 when there is none
CloseOf(chars, p) ==
    LET S == {q \in (p + 2)..Len(chars) : chars[q] = "]"}
    IN IF S = {} THEN 0 ELSE CHOOSE q \in S : \A m \in S : q <= m

MatchAt(chars, p) ==
    /\ p + 1 <= Len(chars)
    /\ chars[p] = "["
    /\ chars[p + 1] = "@"
    /\ CloseOf(chars, p) # 0
    /\ \A r \in (p + 2)..(CloseOf(chars, p) - 1) : chars[r] # "\n"

\* a scan that would list a key once however often it is cited
PushesOnce(found, key) == key # <<>> /\ \A n \in DOMAIN found : found[n] # key

\* if (match[1]) of line 324
Pushes(found, key) == key # <<>>

\* the while loop of lines 322-327: regex.exec from lastIndex on
RECURSIVE ExecAll(_, _, _)
ExecAll(chars, lastIndex, found) ==
    LET S == {p \in lastIndex..Len(chars) : MatchAt(chars, p)}
    IN IF S = {} THEN found
       ELSE LET p == CHOOSE s \in S : \A m \in S : s <= m
                q == CloseOf(chars, p)
                key == SubSeq(chars, p + 2, q - 1)
            IN ExecAll(chars, q + 1,
                       IF Pushes(found, key) THEN Append(found, key) ELSE found)

\* visit(tree, "text", ...) of lines 320-328: every text node, in document order
RECURSIVE visitText(_, _)
visitText(ns, found) ==
    IF ns = <<>> THEN found
    ELSE LET node == Head(ns)
             here == IF node.type = "text" THEN ExecAll(Chars(node.value), 1, found)
                     ELSE found
         IN visitText(Tail(ns), visitText(node.children, here))

CollectCitations ==
    /\ ppc = "citations"
    /\ citations' = visitText(tree, <<>>)
    /\ ppc' = "references"
    /\ UNCHANGED <<tree, title, frontmatter, titleFoundInFrontmatter, tree0, references>>
    /\ ParseOnly

\* the findIndex test of lines 330-341
IsReferenceHeading(node) ==
    /\ node.type = "heading"
    /\ node.depth = 2
    /\ referenceText(node) \in REFERENCE_SECTION_KEYWORDS

referenceHeading(t) ==
    LET S == {n \in 1..Len(t) : IsReferenceHeading(t[n])}
    IN IF S = {} THEN 0 ELSE CHOOSE n \in S : \A m \in S : n <= m

\* lines 344-346
referenceList(t) ==
    LET S == {n \in 1..Len(t) : n > referenceHeading(t) /\ t[n].type = "list"}
    IN IF referenceHeading(t) = 0 \/ S = {} THEN 0
       ELSE CHOOSE n \in S : \A m \in S : n <= m

\* .map(text => text.value).join(""): a node without a value joins as ""
RECURSIVE JoinValues(_)
JoinValues(ns) ==
    IF ns = <<>> THEN "" ELSE Head(ns).value \o JoinValues(Tail(ns))

\* lines 350-354: the string pushed for one list item
RECURSIVE ItemText(_)
ItemText(children) ==
    IF children = <<>> THEN ""
    ELSE JoinValues(Head(children).children) \o ItemText(Tail(children))

\* child.children.map of line 352 on a child that has no children
ItemThrows(listItem) ==
    \E n \in DOMAIN listItem.children : ~HasChildren(listItem.children[n])

\* lines 343-358
CollectReferences ==
    /\ ppc = "references"
    /\ LET list == referenceList(tree)
           items == IF list = 0 THEN <<>> ELSE tree[list].children
       IN IF \E n \in DOMAIN items : ItemThrows(items[n])
          THEN ppc' = "threw" /\ UNCHANGED references
          ELSE /\ references' = [n \in DOMAIN items |-> ItemText(items[n].children)]
               /\ ppc' = "done"
    /\ UNCHANGED <<tree, title, frontmatter, titleFoundInFrontmatter, tree0, citations>>
    /\ ParseOnly

NormIdle ==
    /\ lines = <<>>
    /\ i = 1
    /\ result = <<>>
    /\ tableBlocks = <<>>
    /\ inCodeBlock = FALSE
    /\ inFrontmatter = FALSE
    /\ how = <<>>
    /\ npc = "idle"
    /\ first = [content |-> <<>>, tableBlocks |-> <<>>]

InitParse ==
    /\ tree \in Trees
    /\ tree0 = tree
    /\ title = "Untitled"
    /\ frontmatter = <<>>
    /\ titleFoundInFrontmatter = FALSE
    /\ citations = <<>>
    /\ references = <<>>
    /\ ppc = "yaml"
    /\ NormIdle
    /\ RenderIdle

NextParse ==
    \/ LoadFrontmatter
    \/ TitleFromHeading
    \/ RemoveTagParagraphs
    \/ MarkReferenceSections
    \/ CollectCitations
    \/ CollectReferences

SpecParse == InitParse /\ [][NextParse]_vars

\* the nodes of the documents with citations and reference sections
MaxCite == 3

EntryList ==
    MdList(<<MdListItem(<<Paragraph(<<Text("Entry one")>>)>>),
             MdListItem(<<Paragraph(<<Text("Entry two")>>)>>)>>)

StyledList ==
    MdList(<<MdListItem(<<Paragraph(<<Text("Smith. "), MdEmphasis(<<Text("Title")>>),
                                      Text(". Pub")>>)>>)>>)

CodeList ==
    MdList(<<MdListItem(<<Paragraph(<<Text("Entry one")>>), MdCode("x")>>)>>)

CiteNodes ==
    { Paragraph(<<Text("see [@smith2020] and [@lee99]")>>),
      Paragraph(<<Text("[@a] then [@a]"), Strong(<<Text("[@b]")>>)>>),
      Paragraph(<<Text("[@] [@a"), MdInlineCode("[@b]")>>),
      Heading(1, <<Text("[@b]")>>),
      Heading(2, <<Text("References")>>),
      Heading(3, <<Text("References")>>),
      Heading(2, <<Text("BIBLIOGRAPHY")>>),
      Heading(2, <<Text("Method")>>),
      EntryList,
      StyledList,
      CodeList }

InitCite ==
    /\ tree \in SeqsUpTo(CiteNodes, MaxCite)
    /\ tree0 = tree
    /\ title = "Untitled"
    /\ frontmatter = <<>>
    /\ titleFoundInFrontmatter = FALSE
    /\ citations = <<>>
    /\ references = <<>>
    /\ ppc = "yaml"
    /\ NormIdle
    /\ RenderIdle

SpecCite == InitCite /\ [][NextParse]_vars

(***************************************************************************)
(* parseMarkdown: placeholders resolved into table nodes (lines 201-259)   *)
(***************************************************************************)
MdTableCell(ch) == Node("tableCell", "", ch, 0)
MdTableRow(ch) == Node("tableRow", "", ch, 0)
MdTable(ch) == Node("table", "", ch, 0)

\* the string of a sequence of characters
RECURSIVE Str(_)
Str(chars) == IF chars = <<>> THEN "" ELSE Head(chars) \o Str(Tail(chars))

\* String.prototype.split on the column separator
RECURSIVE SplitOnPipe(_)
SplitOnPipe(chars) ==
    LET S == {n \in 1..Len(chars) : chars[n] = "|"}
    IN IF S = {} THEN <<chars>>
       ELSE LET p == CHOOSE n \in S : \A m \in S : n <= m
            IN <<SubSeq(chars, 1, p - 1)>> \o SplitOnPipe(SubSeq(chars, p + 1, Len(chars)))

\* normalizeRow of lines 202-207: the trimmed cells of a row
normalizeRow(row) ==
    LET trimmed == TrimChars(Chars(row))
        open == IF trimmed # <<>> /\ Head(trimmed) = "|" THEN Tail(trimmed) ELSE trimmed
        inner == IF open # <<>> /\ open[Len(open)] = "|"
                 THEN SubSeq(open, 1, Len(open) - 1) ELSE open
        cells == SplitOnPipe(inner)
    IN [n \in 1..Len(cells) |-> Str(TrimChars(cells[n]))]

\* a cell normalisation that would only pad
normalizeCellsPadOnly(cells, columnCount) ==
    [n \in 1..(IF Len(cells) > columnCount THEN Len(cells) ELSE columnCount) |->
        IF n <= Len(cells) THEN cells[n] ELSE ""]

\* normalizeCells of lines 217-221: slice(0, columnCount), then padded with ""
normalizeCells(cells, columnCount) ==
    [n \in 1..columnCount |-> IF n <= Len(cells) THEN cells[n] ELSE ""]

\* makeRow of lines 223-229
makeRow(cells, columnCount) ==
    LET normalized == normalizeCells(cells, columnCount)
    IN MdTableRow([n \in 1..Len(normalized) |->
           MdTableCell(IF normalized[n] # "" THEN <<Text(normalized[n])>> ELSE <<>>)])

\* toTableNode of lines 201-239
toTableNode(ls) ==
    IF ls = <<>> \/ ls[1] = "" THEN Paragraph(<<>>)
    ELSE LET headerCells == normalizeRow(ls[1])
             bodyLines == SubSeq(ls, 3, Len(ls))
             columnCount == Len(headerCells)
         IN MdTable(<<makeRow(headerCells, columnCount)>>
                    \o [n \in 1..Len(bodyLines) |->
                           makeRow(normalizeRow(bodyLines[n]), columnCount)])

Digits == <<"0", "1", "2", "3", "4", "5", "6", "7", "8", "9">>

IsDigit(char) == \E n \in DOMAIN Digits : Digits[n] = char

\* Number.parseInt(match[1], 10)
RECURSIVE parseInt(_)
parseInt(chars) ==
    IF chars = <<>> THEN 0
    ELSE parseInt(SubSeq(chars, 1, Len(chars) - 1)) * 10
         + (CHOOSE n \in DOMAIN Digits : Digits[n] = chars[Len(chars)]) - 1

\* tableTokenPattern.exec(value.trim()) of lines 241 and 249: the digits of
\* the placeholder, or no match
tableTokenPattern(value) ==
    LET chars == TrimChars(Chars(value))
        prefix == Chars("[[[TABLE_")
        digits == SubSeq(chars, Len(prefix) + 1, Len(chars) - 3)
        matches == /\ Len(chars) >= Len(prefix) + 4
                   /\ SubSeq(chars, 1, Len(prefix)) = prefix
                   /\ SubSeq(chars, Len(chars) - 2, Len(chars)) = <<"]", "]", "]">>
                   /\ \A n \in DOMAIN digits : IsDigit(digits[n])
    IN [matches |-> matches, digits |-> IF matches THEN digits ELSE <<>>]

\* the callback of tree.children.map, lines 242-259
ResolveNode(node, blocks) ==
    IF /\ node.type = "paragraph"
       /\ Len(node.children) = 1
       /\ node.children[1].type = "text"
       /\ tableTokenPattern(node.children[1].value).matches
       /\ parseInt(tableTokenPattern(node.children[1].value).digits) + 1 \in DOMAIN blocks
    THEN toTableNode(blocks[parseInt(tableTokenPattern(node.children[1].value).digits) + 1])
    ELSE node

ResolveTables ==
    /\ ppc = "tables"
    /\ tree' = [n \in DOMAIN tree |-> ResolveNode(tree[n], tableBlocks)]
    /\ ppc' = "yaml"
    /\ UNCHANGED <<title, frontmatter, titleFoundInFrontmatter, tree0, citations, references>>
    /\ ParseOnly

\* the table blocks of the model: two header lines of two columns, body rows
\* of one, two and three cells
MaxRows == 2

HeaderLines == {"a|b", "| a | b |"}
RowLines == {"c|d", "|c|", "c|d|e"}
Blocks == {<<h, "---|---">> \o rows : h \in HeaderLines, rows \in SeqsUpTo(RowLines, MaxRows)}
SmallBlock == <<"a|b", "---|---", "---|---">>

\* what may follow the first table: nothing, a second table, a line that
\* reads like a placeholder
Followers == {<<>>, SmallBlock, <<"[[[TABLE_0]]]">>, <<"[[[TABLE_5]]]">>}

FollowerLine(post) == IF post = SmallBlock THEN Placeholder(1) ELSE post[1]

\* preprocessMarkdown has returned, processor.parse has run
InitResolve ==
    \E pre \in {<<>>, <<"text">>}, block \in Blocks, post \in Followers :
        /\ lines = pre \o block \o (IF post = <<>> THEN <<>> ELSE <<"">> \o post)
        /\ i = Len(lines) + 1
        /\ result = (IF pre = <<>> THEN <<>> ELSE <<"text", "">>) \o <<Placeholder(0)>>
                    \o (IF post = <<>> THEN <<>> ELSE <<"", FollowerLine(post)>>)
        /\ tableBlocks = <<block>> \o (IF post = SmallBlock THEN <<SmallBlock>> ELSE <<>>)
        /\ inCodeBlock = FALSE
        /\ inFrontmatter = FALSE
        /\ how = [n \in DOMAIN pre |-> "content"]
                 \o <<"tableStart">> \o [n \in 1..(Len(block) - 1) |-> "tableRow"]
                 \o (IF post = <<>> THEN <<>>
                     ELSE IF post = SmallBlock
                     THEN <<"blank", "tableStart", "tableRow", "tableRow">>
                     ELSE <<"blank", "content">>)
        /\ npc = "done"
        /\ first = [content |-> result, tableBlocks |-> tableBlocks]
        /\ tree = [n \in DOMAIN SelectSeq(result, LAMBDA l : l # "") |->
                       Paragraph(<<Text(SelectSeq(result, LAMBDA l : l # "")[n])>>)]
        /\ tree0 = tree
        /\ title = "Untitled"
        /\ frontmatter = <<>>
        /\ titleFoundInFrontmatter = FALSE
        /\ citations = <<>>
        /\ references = <<>>
        /\ ppc = "tables"
        /\ RenderIdle

NextResolve ==
    \/ ResolveTables
    \/ NextParse

SpecResolve == InitResolve /\ [][NextResolve]_vars

(***************************************************************************)
(* The renderer: generatePdf and the APA formatter.                        *)
(* Lengths are in points.                                                  *)
(***************************************************************************)
MaxNodes == 2

\* new jspdf({ unit: "pt", format: "letter" })
PageWidth == 612
PageHeight == 792

\* DEFAULT_SETTINGS.margins, in inches, and getPageSetup of the APA formatter
MarginInches == 1
PointsPerInch == 72
MarginTop == MarginInches * PointsPerInch
MarginRight == MarginInches * PointsPerInch
MarginBottom == MarginInches * PointsPerInch
MarginLeft == MarginInches * PointsPerInch
FontSize == 12
LineHeight == 2
LineHeightPt == FontSize * LineHeight

\* defaultLayout
ParagraphSpacing == 0
FirstLineIndent == 36
ListIndent == 36
BlockquoteIndent == 36

\* the gap formatTable leaves under a table
TableGap == 10

\* maxWidth of renderTextFlowWithIndent: the x of the right margin
MaxWidth == PageWidth - MarginRight

\* doc.internal.pageSize.height - margins.bottom
PageLimit == PageHeight - MarginBottom

(***************************************************************************)
(* Text.  A string is the sequence of its maximal runs of non-whitespace   *)
(* and of whitespace; a run carries the width doc.getTextWidth measures.   *)
(***************************************************************************)
Word(w) == [s |-> "word", w |-> w]
Space == [s |-> "space", w |-> 3]
Empty == [s |-> "empty", w |-> 0]

\* text.split(/(\s+)/): the runs, with an empty string before a leading and
\* after a trailing whitespace run; [""] for the empty string
Split(text) ==
    IF text = <<>> THEN <<Empty>>
    ELSE (IF text[1].s = "space" THEN <<Empty>> ELSE <<>>)
         \o text
         \o (IF text[Len(text)].s = "space" THEN <<Empty>> ELSE <<>>)

\* token.trim() === ""
IsBlank(token) == token.s # "word"

\* text.trim().length > 0
HasInk(text) == \E n \in 1..Len(text) : text[n].s = "word"

(***************************************************************************)
(* Nodes of the rendered tree                                              *)
(***************************************************************************)
Bold(ch) == Node("strong", <<>>, ch, 0)
Emphasis(ch) == Node("emphasis", <<>>, ch, 0)
InlineCode(v) == Node("inlineCode", v, <<>>, 0)
Image == Node("image", <<>>, <<>>, 0)
ListItem(ch) == Node("listItem", <<>>, ch, 0)
List(ord, ch) == [Node("list", <<>>, ch, 0) EXCEPT !.ordered = ord]
Blockquote(ch) == Node("blockquote", <<>>, ch, 0)
Code(v) == Node("code", v, <<>>, 0)
Root(ch) == Node("root", <<>>, ch, 0)

\* an inline formula with what latexRenderer.renderInline returns for it:
\* res is "ok" (an svg of width x height that renderSvg draws), "fail" (an
\* svg that renderSvg rejects) or "null" (no result)
InlineMath(res, w, h) ==
    [Node("inlineMath", <<Word(40)>>, <<>>, 0)
        EXCEPT !.measure = [res |-> res, width |-> w, height |-> h]]

\* a display formula with what latexRenderer.renderDisplay returns for it
Math(res, w, h) ==
    [Node("math", <<Word(40)>>, <<>>, 0)
        EXCEPT !.measure = [res |-> res, width |-> w, height |-> h]]

\* a table with the height autoTable lays it out on (finalY - startY)
TableCell(ch) == Node("tableCell", <<>>, ch, 0)
TableRow(ch) == Node("tableRow", <<>>, ch, 0)
Table(h) ==
    [Node("table", <<>>, <<TableRow(<<TableCell(<<Node("text", <<Word(20)>>, <<>>, 0)>>)>>)>>, 0)
        EXCEPT !.measure = [res |-> "ok", width |-> 0, height |-> h]]

\* a heading of the reference section, as parseMarkdown tags it
Tagged(node) == [node EXCEPT !.data = [isReferenceSection |-> TRUE]]

\* a text node of the rendered tree
T(text) == Node("text", text, <<>>, 0)
P(ch) == Node("paragraph", <<>>, ch, 0)
H(dp, ch) == Node("heading", <<>>, ch, dp)

(***************************************************************************)
(* Pure functions of the renderer                                          *)
(***************************************************************************)
RECURSIVE Concat(_)
Concat(ss) == IF ss = <<>> THEN <<>> ELSE Head(ss) \o Concat(Tail(ss))

\* hasContent(node)
hasContent(node) ==
    IF node.type = "paragraph"
    THEN /\ Len(node.children) > 0
         /\ \/ HasInk(Concat([n \in 1..Len(node.children) |->
                                IF node.children[n].type = "text"
                                THEN node.children[n].value ELSE <<>>]))
            \/ \E n \in 1..Len(node.children) : node.children[n].type # "text"
    ELSE TRUE

\* the order in which visit(tree, visitor) calls the visitor: the node, then
\* its descendants, child by child
RECURSIVE PreOrder(_)
PreOrder(node) ==
    <<node>> \o Concat([n \in 1..Len(node.children) |-> PreOrder(node.children[n])])

\* the nodes generatePdf iterates over
NodesOf(v, content) ==
    IF v = "visit" THEN PreOrder(Root(content))
    ELSE SelectSeq(content, hasContent)

Segment(text, bold, italic, code, latex, measure) ==
    [text |-> text, bold |-> bold, italic |-> italic, code |-> code,
     latex |-> latex, measure |-> measure]

\* extractTextSegments(nodes, inheritBold, inheritItalic)
RECURSIVE extractTextSegments(_, _, _)
extractTextSegments(ns, inheritBold, inheritItalic) ==
    IF ns = <<>> THEN <<>>
    ELSE LET node == Head(ns)
             here ==
                 IF node.type = "text"
                 THEN <<Segment(node.value, inheritBold, inheritItalic, FALSE, FALSE, NoMeasure)>>
                 ELSE IF node.type = "strong"
                 THEN extractTextSegments(node.children, TRUE, inheritItalic)
                 ELSE IF node.type = "emphasis"
                 THEN extractTextSegments(node.children, inheritBold, TRUE)
                 ELSE IF node.type = "inlineCode"
                 THEN <<Segment(node.value, FALSE, FALSE, TRUE, FALSE, NoMeasure)>>
                 ELSE IF node.type = "inlineMath"
                 THEN <<Segment(node.value, FALSE, FALSE, FALSE, TRUE, node.measure)>>
                 ELSE IF Len(node.children) > 0
                 THEN extractTextSegments(node.children, inheritBold, inheritItalic)
                 ELSE <<>>
         IN here \o extractTextSegments(Tail(ns), inheritBold, inheritItalic)

\* the prefix formatList passes for item number index (0-based) of a list
Prefix(ordered, index) == IF ordered THEN <<Word(9), Space>> ELSE <<Word(4), Space>>

\* the segments renderTextFlowWithIndent iterates over (lines 206-210)
FlowSegments(ns, prefix) ==
    (IF prefix # <<>> THEN <<Segment(prefix, FALSE, FALSE, FALSE, FALSE, NoMeasure)>> ELSE <<>>)
    \o extractTextSegments(ns, FALSE, FALSE)

\* the iterations of the two nested loops of renderTextFlowWithIndent, in
\* order: one per latex segment, one per token of every other segment
Iterations(segments) ==
    Concat([n \in 1..Len(segments) |->
        IF segments[n].latex
        THEN <<[latex |-> TRUE, token |-> Empty, measure |-> segments[n].measure, segment |-> n]>>
        ELSE LET tokens == Split(segments[n].text)
             IN [m \in 1..Len(tokens) |->
                    [latex |-> FALSE, token |-> tokens[m], measure |-> NoMeasure, segment |-> n]]])

\* the x formatHeading draws a heading of this depth at
HeadingX(depth) ==
    IF depth = 2 THEN PageWidth \div 2
    ELSE IF depth \in {5, 6} THEN MarginLeft + FirstLineIndent
    ELSE MarginLeft

(***************************************************************************)
(* State of a run of generatePdf                                           *)
(***************************************************************************)
Main == [who |-> "main", id |-> 0]
EventLoop == [who |-> "loop", id |-> 0]
Frame(n) == [who |-> "frame", id |-> n]

\* one draw call: what drew (src), for which node (for a citation: which
\* citation of the list; 0 for the title and the reference list), on which page, at which
\* x and y, how wide; for a token of a text flow, whether newLine ran for it
\* and the offset at which the line it is drawn on starts
Mark(src, node, page, x, yy, w, wrapped, lineStart) ==
    [src |-> src, node |-> node, page |-> page, x |-> x, y |-> yy, w |-> w,
     wrapped |-> wrapped, lineStart |-> lineStart]

\* the locals of renderTextFlowWithIndent at its start (lines 206-214);
\* lineMath is history: the heights of the formulas drawn on the current line
NewFlow(kind, index, ns, firstLineX, subsequentLineX, prefix) ==
    [kind |-> kind, at |-> "flow", index |-> index,
     iterations |-> Iterations(FlowSegments(ns, prefix)), ii |-> 1,
     currentX |-> firstLineX, isFirstLine |-> TRUE, currentLineHeight |-> LineHeightPt,
     firstLineX |-> firstLineX, subsequentLineX |-> subsequentLineX, svgY |-> 0,
     lineMath |-> <<>>]

\* the frame of formatDisplayMath, which runs no text flow
MathFrame == [NewFlow("math", 0, <<>>, 0, 0, <<>>) EXCEPT !.at = "mathWait"]

\* the offset of the line being filled
LineStart(f) == IF f.isFirstLine THEN f.firstLineX ELSE f.subsequentLineX

\* a wrap test that would not look at where the line starts
NeedsWrapAnywhere(f, w) == f.currentX + w > MaxWidth

\* the wrap test of lines 238 and 289
NeedsWrap(f, w) == f.currentX + w > MaxWidth /\ f.currentX > LineStart(f)

\* a newLine that would go back to the offset of the first line
newLineAtFirstLineX(f, yy, pp) ==
    LET y1 == yy + f.currentLineHeight
        over == y1 + LineHeightPt > PageLimit
    IN [frame |-> [f EXCEPT !.isFirstLine = FALSE, !.currentX = f.firstLineX,
                            !.currentLineHeight = LineHeightPt, !.lineMath = <<>>],
        y |-> IF over THEN MarginTop ELSE y1,
        pages |-> IF over THEN pp + 1 ELSE pp]

\* newLine (lines 216-226) on the locals f, formatter.y = yy and pp pages
newLine(f, yy, pp) ==
    LET y1 == yy + f.currentLineHeight
        over == y1 + LineHeightPt > PageLimit
    IN [frame |-> [f EXCEPT !.isFirstLine = FALSE, !.currentX = f.subsequentLineX,
                            !.currentLineHeight = LineHeightPt, !.lineMath = <<>>],
        y |-> IF over THEN MarginTop ELSE y1,
        pages |-> IF over THEN pp + 1 ELSE pp]

\* newLine if the wrap test asks for it
Wrapped(f, w, yy, pp) ==
    IF NeedsWrap(f, w) THEN newLine(f, yy, pp) ELSE [frame |-> f, y |-> yy, pages |-> pp]

\* the fallback text of a formula that could not be rendered, as measured
FallbackText == Word(90)

\* where control goes when the running frame suspends or returns: back to
\* generatePdf if it called the frame and the call has not returned yet
Yield == IF rpc = "called" THEN Main ELSE EventLoop

\* the page-overflow check and setY at the head of the loop body
Enter ==
    [y |-> IF y > PageLimit THEN MarginTop ELSE y,
     pages |-> IF y > PageLimit THEN pages + 1 ELSE pages]

\* an orchestrator that would not look at the tag
ForcedBreakNever(node) == FALSE

\* if (node.data?.isReferenceSection)
ForcedBreak(node) == node.data.isReferenceSection

\* the node types the switch of the orchestrator has a case for
Cases ==
    {"heading", "paragraph", "list", "table", "image", "code", "blockquote"}
    \cup (IF variant = "loop" THEN {"math"} ELSE {})

AtNode ==
    /\ cur = Main
    /\ rpc = "nodes"
    /\ nodeIndex <= Len(nodes)

AtCase(type) ==
    /\ AtNode
    /\ hasContent(nodes[nodeIndex])
    /\ nodes[nodeIndex].type = type
    /\ type \in Cases

IsImageParagraph(node) ==
    /\ Len(node.children) = 1
    /\ node.children[1].type = "image"

\* generatePdf from its call to the node list: the formatter is created or
\* the call throws (pdf-generator.ts 139-148, the factory in the loop variant),
\* then lines 150-159
FormatTitle ==
    /\ rpc = "title"
    /\ cur = Main
    /\ IF HasFormatter(settings.selectedFormatStyle)
       THEN /\ IF Trim(parsed.title) # ""
               THEN /\ drawn' = Append(drawn, Mark("title", 0, pages, PageWidth \div 2,
                                                   formatterY + FontSize, 0, FALSE, 0))
                    /\ formatterY' = formatterY + FontSize + LineHeightPt
                    /\ y' = formatterY + FontSize + LineHeightPt
               ELSE UNCHANGED <<drawn, formatterY, y>>
            /\ nodes' = NodesOf(variant, parsed.content)
            /\ rpc' = "nodes"
            /\ UNCHANGED <<cur, error>>
       ELSE /\ error' = <<Failure(variant, settings.selectedFormatStyle)>>
            /\ rpc' = "threw"
            /\ cur' = EventLoop
            /\ UNCHANGED <<drawn, formatterY, y, nodes>>
    /\ UNCHANGED <<variant, parsed, nodeIndex, citationIndex, pages, tasks, queue, blob>>
    /\ UNCHANGED <<nvars, pvars, mvars, tvars, settings, imageResolver, lastEdit>>

\* if (!hasContent(node)) return  (the visitor only: the loop filters before)
SkipNode ==
    /\ AtNode
    /\ ~hasContent(nodes[nodeIndex])
    /\ nodeIndex' = nodeIndex + 1
    /\ UNCHANGED <<variant, parsed, nodes, citationIndex, y, formatterY, pages, drawn,
                   tasks, queue, cur, rpc, blob>>
    /\ RenderOnly

\* a node the switch has no case for
PassNode ==
    /\ AtNode
    /\ hasContent(nodes[nodeIndex])
    /\ nodes[nodeIndex].type \notin Cases
    /\ pages' = Enter.pages
    /\ formatterY' = Enter.y
    /\ y' = Enter.y
    /\ nodeIndex' = nodeIndex + 1
    /\ UNCHANGED <<variant, parsed, nodes, citationIndex, drawn, tasks, queue, cur, rpc, blob>>
    /\ RenderOnly

\* case "heading", with formatHeading
FormatHeadingNode ==
    /\ AtCase("heading")
    /\ LET node == nodes[nodeIndex]
           y1 == IF ForcedBreak(node) THEN MarginTop ELSE Enter.y
           p1 == IF ForcedBreak(node) THEN Enter.pages + 1 ELSE Enter.pages
       IN /\ pages' = p1
          /\ drawn' = Append(drawn, Mark("heading", nodeIndex, p1, HeadingX(node.depth),
                                         y1, 0, FALSE, 0))
          /\ formatterY' = y1 + LineHeightPt
          /\ y' = y1 + LineHeightPt
    /\ nodeIndex' = nodeIndex + 1
    /\ UNCHANGED <<variant, parsed, nodes, citationIndex, tasks, queue, cur, rpc, blob>>
    /\ RenderOnly

\* case "table", with formatTable: autoTable draws from startY to finalY
FormatTableNode ==
    /\ AtCase("table")
    /\ LET finalY == Enter.y + nodes[nodeIndex].measure.height
       IN /\ drawn' = Append(drawn, Mark("table", nodeIndex, Enter.pages, MarginLeft,
                                         Enter.y, 0, FALSE, 0))
          /\ formatterY' = finalY + TableGap
          /\ y' = finalY + TableGap
    /\ pages' = Enter.pages
    /\ nodeIndex' = nodeIndex + 1
    /\ UNCHANGED <<variant, parsed, nodes, citationIndex, tasks, queue, cur, rpc, blob>>
    /\ RenderOnly

\* the placeholder renderImage draws when the formatter has no imageResolver
ImagePlaceholder(node) ==
    /\ pages' = Enter.pages
    /\ drawn' = Append(drawn, Mark("image", node, Enter.pages, MarginLeft,
                                   Enter.y + ParagraphSpacing, 0, FALSE, 0))
    /\ formatterY' = Enter.y + 2 * ParagraphSpacing
    /\ y' = Enter.y + 2 * ParagraphSpacing

\* case "image", with formatImage and renderImage
FormatImageNode ==
    /\ AtCase("image")
    /\ ~imageResolver
    /\ ImagePlaceholder(nodeIndex)
    /\ nodeIndex' = nodeIndex + 1
    /\ UNCHANGED <<variant, parsed, nodes, citationIndex, tasks, queue, cur, rpc, blob>>
    /\ RenderOnly

\* case "paragraph" for a paragraph that holds one image (lines 110-117)
FormatImageParagraph ==
    /\ AtCase("paragraph")
    /\ IsImageParagraph(nodes[nodeIndex])
    /\ ~imageResolver
    /\ ImagePlaceholder(nodeIndex)
    /\ nodeIndex' = nodeIndex + 1
    /\ UNCHANGED <<variant, parsed, nodes, citationIndex, tasks, queue, cur, rpc, blob>>
    /\ RenderOnly

\* case "code", with formatCode
FormatCodeNode ==
    /\ AtCase("code")
    /\ pages' = Enter.pages
    /\ drawn' = Append(drawn, Mark("code", nodeIndex, Enter.pages, MarginLeft,
                                   Enter.y + ParagraphSpacing, 0, FALSE, 0))
    /\ formatterY' = Enter.y + 2 * ParagraphSpacing
    /\ y' = Enter.y + 2 * ParagraphSpacing
    /\ nodeIndex' = nodeIndex + 1
    /\ UNCHANGED <<variant, parsed, nodes, citationIndex, tasks, queue, cur, rpc, blob>>
    /\ RenderOnly

\* a call of an async block renderer: the frame runs at once, inside the call
Call(frame) ==
    /\ tasks' = tasks @@ (nodeIndex :> frame)
    /\ cur' = Frame(nodeIndex)
    /\ rpc' = "called"

\* case "paragraph", with formatParagraph up to the first step of the flow
CallParagraph ==
    /\ AtCase("paragraph")
    /\ ~IsImageParagraph(nodes[nodeIndex])
    /\ pages' = Enter.pages
    /\ formatterY' = Enter.y
    /\ Call(NewFlow("paragraph", 0, nodes[nodeIndex].children,
                    MarginLeft + FirstLineIndent, MarginLeft, <<>>))
    /\ UNCHANGED <<variant, parsed, nodes, nodeIndex, citationIndex, y, drawn, queue, blob>>
    /\ RenderOnly

\* case "list", with formatList up to the first step of the first item
CallList ==
    /\ AtCase("list")
    /\ Len(nodes[nodeIndex].children) > 0
    /\ pages' = Enter.pages
    /\ formatterY' = Enter.y + ParagraphSpacing
    /\ Call(NewFlow("list", 1, nodes[nodeIndex].children[1].children,
                    MarginLeft + ListIndent, MarginLeft + ListIndent,
                    Prefix(nodes[nodeIndex].ordered, 0)))
    /\ UNCHANGED <<variant, parsed, nodes, nodeIndex, citationIndex, y, drawn, queue, blob>>
    /\ RenderOnly

\* case "blockquote", with formatBlockquote up to the first step of the flow
CallBlockquote ==
    /\ AtCase("blockquote")
    /\ pages' = Enter.pages
    /\ formatterY' = Enter.y + ParagraphSpacing
    /\ drawn' = Append(drawn, Mark("rule", nodeIndex, Enter.pages, MarginLeft - 5,
                                   Enter.y + ParagraphSpacing, 0, FALSE, 0))
    /\ Call(NewFlow("blockquote", 0, nodes[nodeIndex].children,
                    MarginLeft + BlockquoteIndent, MarginLeft + BlockquoteIndent, <<>>))
    /\ UNCHANGED <<variant, parsed, nodes, nodeIndex, citationIndex, y, queue, blob>>
    /\ RenderOnly

\* case "math" of the loop: formatLatex and formatDisplayMath up to the await
\* of latexRenderer.renderDisplay; generatePdf awaits the call
CallDisplayMath ==
    /\ AtCase("math")
    /\ pages' = Enter.pages
    /\ formatterY' = Enter.y + ParagraphSpacing
    /\ tasks' = tasks @@ (nodeIndex :> MathFrame)
    /\ queue' = Append(queue, nodeIndex)
    /\ cur' = EventLoop
    /\ rpc' = "awaiting"
    /\ UNCHANGED <<variant, parsed, nodes, nodeIndex, citationIndex, y, drawn, blob>>
    /\ RenderOnly

\* the call returned a promise.  The visitor drops it and goes on with
\* y = formatter.y; the loop awaits it
AfterCall ==
    /\ cur = Main
    /\ rpc = "called"
    /\ IF variant = "visit" \/ tasks[nodeIndex].at = "done"
       THEN /\ y' = formatterY
            /\ nodeIndex' = nodeIndex + 1
            /\ rpc' = "nodes"
            /\ UNCHANGED cur
       ELSE /\ rpc' = "awaiting"
            /\ cur' = EventLoop
            /\ UNCHANGED <<y, nodeIndex>>
    /\ UNCHANGED <<variant, parsed, nodes, citationIndex, formatterY, pages, drawn, tasks,
                   queue, blob>>
    /\ RenderOnly

\* the awaited call has settled: y = formatter.y
ResumeMain ==
    /\ cur = EventLoop
    /\ rpc = "awaiting"
    /\ tasks[nodeIndex].at = "done"
    /\ y' = formatterY
    /\ nodeIndex' = nodeIndex + 1
    /\ rpc' = "nodes"
    /\ cur' = Main
    /\ UNCHANGED <<variant, parsed, nodes, citationIndex, formatterY, pages, drawn, tasks,
                   queue, blob>>
    /\ RenderOnly

(***************************************************************************)
(* renderTextFlowWithIndent, one iteration of its loops per step           *)
(***************************************************************************)
InFlow ==
    /\ cur.who = "frame"
    /\ tasks[cur.id].at = "flow"

\* lines 283-305: one token
FlowToken ==
    /\ InFlow
    /\ LET f == tasks[cur.id]
       IN /\ f.ii <= Len(f.iterations)
          /\ ~f.iterations[f.ii].latex
          /\ LET token == f.iterations[f.ii].token
                 wrap == token.s # "empty" /\ NeedsWrap(f, token.w)
                 g == IF token.s = "empty"
                      THEN [frame |-> f, y |-> formatterY, pages |-> pages]
                      ELSE Wrapped(f, token.w, formatterY, pages)
                 skip == token.s = "empty" \/ (wrap /\ IsBlank(token))
             IN /\ formatterY' = g.y
                /\ pages' = g.pages
                /\ drawn' = IF skip THEN drawn
                            ELSE Append(drawn, Mark("flow", cur.id, g.pages, g.frame.currentX,
                                                    g.y, token.w, wrap, LineStart(g.frame)))
                /\ tasks' = [tasks EXCEPT ![cur.id] =
                                [g.frame EXCEPT !.ii = f.ii + 1,
                                                !.currentX = IF skip THEN @ ELSE @ + token.w]]
    /\ UNCHANGED <<variant, parsed, nodes, nodeIndex, citationIndex, y, queue, cur, rpc, blob>>
    /\ RenderOnly

\* lines 229-232: await latexRenderer.renderInline(segment.text)
FlowLatex ==
    /\ InFlow
    /\ LET f == tasks[cur.id]
       IN /\ f.ii <= Len(f.iterations)
          /\ f.iterations[f.ii].latex
    /\ tasks' = [tasks EXCEPT ![cur.id].at = "latex"]
    /\ queue' = Append(queue, cur.id)
    /\ cur' = Yield
    /\ UNCHANGED <<variant, parsed, nodes, nodeIndex, citationIndex, y, formatterY, pages,
                   drawn, rpc, blob>>
    /\ RenderOnly

\* the frame at the head of the microtask queue, if it waits at this point
Resumes(at) ==
    /\ cur = EventLoop
    /\ queue # <<>>
    /\ tasks[Head(queue)].at = at

\* lines 234-249 and 265-270: the result of the latex renderer is in
LatexResult ==
    /\ Resumes("latex")
    /\ LET t == Head(queue)
           f == tasks[t]
           m == f.iterations[f.ii].measure
           g == Wrapped(f, m.width, formatterY, pages)
       IN IF m.res # "null"
          THEN /\ formatterY' = g.y
               /\ pages' = g.pages
               /\ tasks' = [tasks EXCEPT ![t] =
                               [g.frame EXCEPT !.at = "svg",
                                               !.svgY = g.y - m.height + FontSize]]
               /\ UNCHANGED <<drawn, cur>>
          ELSE /\ drawn' = Append(drawn, Mark("fallback", t, pages, f.currentX, formatterY,
                                              FallbackText.w, FALSE, LineStart(f)))
               /\ tasks' = [tasks EXCEPT ![t] =
                               [f EXCEPT !.at = "flow", !.ii = @ + 1,
                                         !.currentX = @ + FallbackText.w]]
               /\ cur' = Frame(t)
               /\ UNCHANGED <<formatterY, pages>>
    /\ queue' = Tail(queue)
    /\ UNCHANGED <<variant, parsed, nodes, nodeIndex, citationIndex, y, rpc, blob>>
    /\ RenderOnly

\* lines 250-261: renderSvg has settled, at a time of its own
SvgSettles(t) ==
    /\ cur = EventLoop
    /\ tasks[t].at = "svg"
    /\ LET f == tasks[t]
           m == f.iterations[f.ii].measure
       IN IF m.res = "ok"
          THEN /\ drawn' = Append(drawn, Mark("svg", t, pages, f.currentX, f.svgY,
                                              m.width, FALSE, LineStart(f)))
               /\ tasks' = [tasks EXCEPT ![t] =
                               [f EXCEPT !.at = "flow", !.ii = @ + 1,
                                         !.currentX = @ + m.width,
                                         !.currentLineHeight =
                                             IF m.height > @ THEN m.height ELSE @,
                                         !.lineMath = Append(@, m.height)]]
          ELSE /\ drawn' = Append(drawn, Mark("fallback", t, pages, f.currentX, formatterY,
                                              FallbackText.w, FALSE, LineStart(f)))
               /\ tasks' = [tasks EXCEPT ![t] =
                               [f EXCEPT !.at = "flow", !.ii = @ + 1,
                                         !.currentX = @ + FallbackText.w]]
    /\ cur' = Frame(t)
    /\ UNCHANGED <<variant, parsed, nodes, nodeIndex, citationIndex, y, formatterY, pages,
                   queue, rpc, blob>>
    /\ RenderOnly

\* line 308, and the return into the block renderer that awaits the flow
FlowEnd ==
    /\ InFlow
    /\ LET f == tasks[cur.id]
       IN /\ f.ii > Len(f.iterations)
          /\ formatterY' = formatterY + f.currentLineHeight
          /\ IF f.kind = "paragraph"
             THEN /\ tasks' = [tasks EXCEPT ![cur.id].at = "done"]
                  /\ UNCHANGED queue
             ELSE /\ tasks' = [tasks EXCEPT ![cur.id].at =
                                  IF f.kind = "list" THEN "item" ELSE "quote"]
                  /\ queue' = Append(queue, cur.id)
    /\ cur' = Yield
    /\ UNCHANGED <<variant, parsed, nodes, nodeIndex, citationIndex, y, pages, drawn, rpc, blob>>
    /\ RenderOnly

\* formatList, lines 139-141 and the next turn of its loop
ListNext ==
    /\ Resumes("item")
    /\ LET t == Head(queue)
           f == tasks[t]
           node == nodes[t]
       IN IF f.index < Len(node.children)
          THEN /\ formatterY' = formatterY + ParagraphSpacing \div 2
               /\ tasks' = [tasks EXCEPT ![t] =
                               NewFlow("list", f.index + 1, node.children[f.index + 1].children,
                                       MarginLeft + ListIndent, MarginLeft + ListIndent,
                                       Prefix(node.ordered, f.index))]
               /\ cur' = Frame(t)
          ELSE /\ formatterY' = formatterY + 2 * (ParagraphSpacing \div 2)
               /\ tasks' = [tasks EXCEPT ![t].at = "done"]
               /\ UNCHANGED cur
    /\ queue' = Tail(queue)
    /\ UNCHANGED <<variant, parsed, nodes, nodeIndex, citationIndex, y, pages, drawn, rpc, blob>>
    /\ RenderOnly

\* formatBlockquote, line 192
QuoteEnd ==
    /\ Resumes("quote")
    /\ formatterY' = formatterY + ParagraphSpacing
    /\ tasks' = [tasks EXCEPT ![Head(queue)].at = "done"]
    /\ queue' = Tail(queue)
    /\ UNCHANGED <<variant, parsed, nodes, nodeIndex, citationIndex, y, pages, drawn, cur,
                   rpc, blob>>
    /\ RenderOnly

\* formatDisplayMath, lines 489-507: the result of renderDisplay is in
MathResult ==
    /\ Resumes("mathWait")
    /\ LET t == Head(queue)
           m == nodes[t].measure
       IN IF m.res # "null"
          THEN /\ tasks' = [tasks EXCEPT ![t].at = "mathSvg", ![t].svgY = formatterY]
               /\ UNCHANGED <<drawn, formatterY>>
          ELSE /\ drawn' = Append(drawn, Mark("fallback", t, pages, MarginLeft, formatterY,
                                              FallbackText.w, FALSE, 0))
               /\ formatterY' = formatterY + 2 * ParagraphSpacing
               /\ tasks' = [tasks EXCEPT ![t].at = "done"]
    /\ queue' = Tail(queue)
    /\ UNCHANGED <<variant, parsed, nodes, nodeIndex, citationIndex, y, pages, cur, rpc, blob>>
    /\ RenderOnly

\* formatDisplayMath, lines 495-502 and 508: renderSvg has settled
MathSvgSettles(t) ==
    /\ cur = EventLoop
    /\ tasks[t].at = "mathSvg"
    /\ LET m == nodes[t].measure
       IN IF m.res = "ok"
          THEN /\ drawn' = Append(drawn, Mark("svg", t, pages, (PageWidth - m.width) \div 2,
                                              tasks[t].svgY, m.width, FALSE, 0))
               /\ formatterY' = formatterY + m.height + ParagraphSpacing
          ELSE /\ drawn' = Append(drawn, Mark("fallback", t, pages, MarginLeft, formatterY,
                                              FallbackText.w, FALSE, 0))
               /\ formatterY' = formatterY + 2 * ParagraphSpacing
    /\ tasks' = [tasks EXCEPT ![t].at = "done"]
    /\ UNCHANGED <<variant, parsed, nodes, nodeIndex, citationIndex, y, pages, queue, cur,
                   rpc, blob>>
    /\ RenderOnly

(***************************************************************************)
(* renderImage with an image resolver (base-formatter.ts 188-259), as      *)
(* main.ts hands one to generatePdf                                        *)
(***************************************************************************)
\* an image whose resolution settles with an ImageInfo of the rendered size
\* w x h ("ok"), with null ("null") or with a rejection ("fail")
Picture(res, w, h) == [Image EXCEPT !.measure = [res |-> res, width |-> w, height |-> h]]

ImageFrame == [NewFlow("image", 0, <<>>, 0, 0, <<>>) EXCEPT !.at = "resolve"]

\* the image node a call of formatImage or formatParagraph is about
ImageOf(node) == IF node.type = "image" THEN node ELSE node.children[1]

\* case "image": formatImage and renderImage up to the await of the resolver;
\* neither orchestrator awaits the call
CallImage ==
    /\ AtCase("image")
    /\ imageResolver
    /\ pages' = Enter.pages
    /\ formatterY' = Enter.y + ParagraphSpacing
    /\ y' = Enter.y + ParagraphSpacing
    /\ tasks' = tasks @@ (nodeIndex :> ImageFrame)
    /\ nodeIndex' = nodeIndex + 1
    /\ UNCHANGED <<variant, parsed, nodes, citationIndex, drawn, queue, cur, rpc, blob>>
    /\ RenderOnly

\* case "paragraph" for a paragraph that holds one image: formatParagraph
\* awaits formatImage, which awaits the resolver
CallImageParagraph ==
    /\ AtCase("paragraph")
    /\ IsImageParagraph(nodes[nodeIndex])
    /\ imageResolver
    /\ pages' = Enter.pages
    /\ formatterY' = Enter.y + ParagraphSpacing
    /\ tasks' = tasks @@ (nodeIndex :> ImageFrame)
    /\ IF variant = "visit"
       THEN /\ y' = Enter.y + ParagraphSpacing
            /\ nodeIndex' = nodeIndex + 1
            /\ UNCHANGED <<cur, rpc>>
       ELSE /\ rpc' = "awaiting"
            /\ cur' = EventLoop
            /\ UNCHANGED <<y, nodeIndex>>
    /\ UNCHANGED <<variant, parsed, nodes, citationIndex, drawn, queue, blob>>
    /\ RenderOnly

\* lines 210-258: the resolver has settled, at a time of its own
ImageSettles(t) ==
    /\ cur = EventLoop
    /\ tasks[t].at = "resolve"
    /\ LET m == ImageOf(nodes[t]).measure
           over == formatterY + m.height > PageLimit
           top == IF over THEN MarginTop ELSE formatterY
           page == IF over THEN pages + 1 ELSE pages
           width == PageWidth - MarginLeft - MarginRight
       IN CASE m.res = "ok" ->
                 /\ pages' = page
                 /\ drawn' = Append(drawn, Mark("picture", t, page,
                                                MarginLeft + (width - m.width) \div 2,
                                                top, m.width, FALSE, 0))
                 /\ formatterY' = top + m.height + ParagraphSpacing
                 /\ tasks' = [tasks EXCEPT ![t].at = "done"]
            [] m.res = "null" ->
                 /\ drawn' = Append(drawn, Mark("image", t, pages, MarginLeft, formatterY,
                                                0, FALSE, 0))
                 /\ formatterY' = formatterY + ParagraphSpacing
                 /\ tasks' = [tasks EXCEPT ![t].at = "done"]
                 /\ UNCHANGED pages
            [] OTHER ->
                 /\ tasks' = [tasks EXCEPT ![t].at = "rejected"]
                 /\ UNCHANGED <<pages, drawn, formatterY>>
    /\ UNCHANGED <<variant, parsed, nodes, nodeIndex, citationIndex, y, queue, cur, rpc, blob>>
    /\ RenderOnly

\* the awaited call has rejected: the await of the loop throws, and nothing
\* in generatePdf catches it
RejectMain ==
    /\ cur = EventLoop
    /\ rpc = "awaiting"
    /\ tasks[nodeIndex].at = "rejected"
    /\ rpc' = "threw"
    /\ error' = <<[what |-> "image", style |-> settings.selectedFormatStyle, formats |-> <<>>]>>
    /\ UNCHANGED <<variant, parsed, nodes, nodeIndex, citationIndex, y, formatterY, pages,
                   drawn, tasks, queue, cur, blob>>
    /\ UNCHANGED <<nvars, pvars, mvars, tvars, settings, imageResolver, lastEdit>>

(***************************************************************************)
(* The trailers and the output                                             *)
(***************************************************************************)
AfterNodes ==
    /\ cur = Main
    /\ rpc = "nodes"
    /\ nodeIndex > Len(nodes)

\* formatCitation, for one citation of the forEach
FormatCitation ==
    /\ AfterNodes
    /\ citationIndex <= Len(parsed.citations)
    /\ drawn' = Append(drawn, Mark("citation", citationIndex, pages, MarginLeft,
                                   formatterY + ParagraphSpacing, 0, FALSE, 0))
    /\ formatterY' = formatterY + 2 * ParagraphSpacing
    /\ citationIndex' = citationIndex + 1
    /\ UNCHANGED <<variant, parsed, nodes, nodeIndex, y, pages, tasks, queue, cur, rpc, blob>>
    /\ RenderOnly

\* lines 362-385: the words of one reference, on the cursor st
RECURSIVE ReferenceWords(_, _)
ReferenceWords(words, st) ==
    IF words = <<>> THEN st
    ELSE LET word == Head(words)
             wrap == st.currentX + word.w > MaxWidth
             y1 == IF wrap THEN st.y + LineHeightPt ELSE st.y
             over == wrap /\ y1 + LineHeightPt > PageLimit
             y2 == IF over THEN MarginTop ELSE y1
             p2 == IF over THEN st.pages + 1 ELSE st.pages
             x2 == IF wrap THEN MarginLeft ELSE st.currentX
         IN IF word.s = "empty" THEN ReferenceWords(Tail(words), st)
            ELSE ReferenceWords(Tail(words),
                    [y |-> y2, pages |-> p2, currentX |-> x2 + word.w,
                     drawn |-> Append(st.drawn, Mark("reference", 0, p2, x2, y2, word.w,
                                                     wrap, MarginLeft))])

\* lines 353-389: the references.forEach
RECURSIVE ReferenceEntries(_, _)
ReferenceEntries(refs, st) ==
    IF refs = <<>> THEN st
    ELSE LET start == [st EXCEPT !.y = @ + ParagraphSpacing, !.currentX = MarginLeft]
             done == ReferenceWords(Split(Head(refs)), start)
         IN ReferenceEntries(Tail(refs), [done EXCEPT !.y = @ + LineHeightPt])

\* formatReferenceList
FormatReferenceList ==
    /\ AfterNodes
    /\ citationIndex > Len(parsed.citations)
    /\ parsed.references # <<>>
    /\ LET y0 == formatterY + 2 * ParagraphSpacing
           head == [y |-> y0 + ParagraphSpacing, pages |-> pages, currentX |-> MarginLeft,
                    drawn |-> Append(drawn, Mark("references", 0, pages, MarginLeft, y0,
                                                 0, FALSE, 0))]
           done == ReferenceEntries(parsed.references, head)
       IN /\ drawn' = done.drawn
          /\ pages' = done.pages
          /\ formatterY' = done.y + ParagraphSpacing
    /\ rpc' = "output"
    /\ UNCHANGED <<variant, parsed, nodes, nodeIndex, citationIndex, y, tasks, queue, cur, blob>>
    /\ RenderOnly

\* return doc.output("blob"): the document as it is at this moment
Output ==
    /\ cur = Main
    /\ \/ rpc = "output"
       \/ AfterNodes /\ citationIndex > Len(parsed.citations) /\ parsed.references = <<>>
    /\ blob' = <<[pages |-> pages, draws |-> Len(drawn)]>>
    /\ rpc' = "done"
    /\ cur' = EventLoop
    /\ UNCHANGED <<variant, parsed, nodes, nodeIndex, citationIndex, y, formatterY, pages,
                   drawn, tasks, queue>>
    /\ RenderOnly

(***************************************************************************)
(* The documents of the model                                              *)
(***************************************************************************)
\* one short line
ShortParagraph == P(<<T(<<Word(100)>>)>>)
\* two lines: the second word does not fit on the first line
WrappingParagraph == P(<<T(<<Word(300), Space, Word(300)>>)>>)
\* a word wider than any line, after a word and at the start of a flow
OversizedParagraph == P(<<T(<<Word(100), Space, Word(500)>>)>>)
OversizedFirst == P(<<Bold(<<T(<<Word(500)>>)>>), T(<<Space, Word(100)>>)>>)
\* inline formulas: rendered, taller than a line; not rendered; rejected
MathParagraph == P(<<T(<<Word(100), Space>>), InlineMath("ok", 50, 40), T(<<Space, Word(100)>>)>>)
FallbackParagraph == P(<<InlineMath("null", 0, 0), T(<<Space>>), InlineMath("fail", 50, 40)>>)
\* whitespace only
BlankParagraph == P(<<T(<<Space>>)>>)
ImageParagraph == P(<<Image>>)
PlainHeading == H(2, <<T(<<Word(60)>>)>>)
ReferenceHeading == Tagged(H(2, <<T(<<Word(60)>>)>>))
TwoItemList == List(FALSE, <<ListItem(<<ShortParagraph>>), ListItem(<<ShortParagraph>>)>>)
CodeBlock == Code(<<Word(80)>>)
Quote == Blockquote(<<ShortParagraph>>)
DisplayMath == Math("ok", 200, 60)

Palette ==
    { ShortParagraph, WrappingParagraph, OversizedParagraph, OversizedFirst, MathParagraph,
      FallbackParagraph, BlankParagraph, ImageParagraph, PlainHeading, ReferenceHeading,
      TwoItemList, CodeBlock, Quote, DisplayMath }

\* a table that fills most of the first page, so that what follows it
\* starts at y = 684, 708 or 732 under a title
Fillers == { <<>>, <<Table(566)>>, <<Table(590)>>, <<Table(614)>> }

Contents == { f \o s : f \in Fillers, s \in SeqsUpTo(Palette, MaxNodes) }

Trailers ==
    { [citations |-> <<>>, references |-> <<>>],
      [citations |-> <<"k1", "k2">>,
       references |-> << <<Word(300), Space, Word(300)>>, <<Word(100)>> >>] }

ParsedContents ==
    { [title |-> "Untitled", content |-> ct, citations |-> tr.citations,
       references |-> tr.references] : ct \in Contents, tr \in Trailers }

\* generatePdf on entry: a new one-page document, the cursor at the top
\* margin (lines 129-152)
RenderStart ==
    /\ TableIdle
    /\ nodes = <<>>
    /\ nodeIndex = 1
    /\ citationIndex = 1
    /\ y = MarginTop
    /\ formatterY = MarginTop
    /\ pages = 1
    /\ drawn = <<>>
    /\ tasks = <<>>
    /\ queue = <<>>
    /\ cur = Main
    /\ rpc = "title"
    /\ blob = <<>>
    /\ lastEdit = <<>>
    /\ error = <<>>

InitRender ==
    /\ variant \in {"visit", "loop"}
    /\ parsed \in ParsedContents
    /\ settings = DEFAULT_SETTINGS
    /\ imageResolver = FALSE
    /\ RenderStart
    /\ extended = <<>>
    /\ baseline = <<>>
    /\ NormIdle
    /\ ParseIdle

NextRender ==
    \/ FormatTitle
    \/ SkipNode
    \/ PassNode
    \/ FormatHeadingNode
    \/ FormatTableNode
    \/ FormatImageNode
    \/ FormatImageParagraph
    \/ FormatCodeNode
    \/ CallParagraph
    \/ CallList
    \/ CallBlockquote
    \/ CallDisplayMath
    \/ AfterCall
    \/ ResumeMain
    \/ FlowToken
    \/ FlowLatex
    \/ LatexResult
    \/ \E t \in DOMAIN tasks : SvgSettles(t)
    \/ FlowEnd
    \/ ListNext
    \/ QuoteEnd
    \/ MathResult
    \/ \E t \in DOMAIN tasks : MathSvgSettles(t)
    \/ FormatCitation
    \/ FormatReferenceList
    \/ Output

SpecRender == InitRender /\ [][NextRender]_vars

(***************************************************************************)
(* exports under every format style the settings can hold                  *)
(***************************************************************************)
MaxStyleNodes == 1

\* the values of the enumeration, and one that a settings file written by
\* another version can hold
SelectableStyles == {FormatStyle[n] : n \in DOMAIN FormatStyle} \cup {"Chicago"}

StyleContents == { f \o s : f \in Fillers, s \in SeqsUpTo(Palette, MaxStyleNodes) }

InitStyle ==
    /\ variant \in {"visit", "loop"}
    /\ \E ct \in StyleContents : \E tr \in Trailers :
          parsed = [title |-> "Untitled", content |-> ct, citations |-> tr.citations,
                    references |-> tr.references]
    /\ \E style \in SelectableStyles :
          settings = [DEFAULT_SETTINGS EXCEPT !.selectedFormatStyle = style]
    /\ imageResolver = FALSE
    /\ RenderStart
    /\ extended = <<>>
    /\ baseline = <<>>
    /\ NormIdle
    /\ ParseIdle

SpecStyle == InitStyle /\ [][NextRender]_vars

(***************************************************************************)
(* exports of documents with images, with and without an image resolver    *)
(***************************************************************************)
MaxImageNodes == 2

\* a line of text that ends a space short of the right edge, then an image
CaptionParagraph == P(<<T(<<Word(430), Space>>), Picture("ok", 200, 96)>>)

ImagePalette ==
    { CaptionParagraph,
      P(<<Picture("ok", 200, 96)>>),
      P(<<Picture("null", 0, 0)>>),
      P(<<Picture("fail", 0, 0)>>),
      ShortParagraph,
      MathParagraph,
      FallbackParagraph }

InitImage ==
    /\ variant \in {"visit", "loop"}
    /\ \E ct \in SeqsUpTo(ImagePalette, MaxImageNodes) : \E tr \in Trailers :
          parsed = [title |-> "Untitled", content |-> ct, citations |-> tr.citations,
                    references |-> tr.references]
    /\ settings = DEFAULT_SETTINGS
    /\ imageResolver \in BOOLEAN
    /\ RenderStart
    /\ extended = <<>>
    /\ baseline = <<>>
    /\ NormIdle
    /\ ParseIdle

NextImage ==
    \/ FormatTitle
    \/ PassNode
    \/ FormatImageNode
    \/ FormatImageParagraph
    \/ CallImage
    \/ CallImageParagraph
    \/ \E t \in DOMAIN tasks : ImageSettles(t)
    \/ RejectMain
    \/ CallParagraph
    \/ AfterCall
    \/ ResumeMain
    \/ FlowToken
    \/ FlowLatex
    \/ LatexResult
    \/ \E t \in DOMAIN tasks : SvgSettles(t)
    \/ FlowEnd
    \/ FormatCitation
    \/ FormatReferenceList
    \/ Output

SpecImage == InitImage /\ [][NextImage]_vars

(***************************************************************************)
(* Paragraphs that wrap: text and formulas at the right edge               *)
(***************************************************************************)
MaxWrapNodes == 2

\* a formula that does not fit on the first line, then a word that does not
\* fit on the line the formula made taller
TallLineParagraph ==
    P(<<T(<<Word(400), Space>>), InlineMath("ok", 50, 40), T(<<Space, Word(450)>>)>>)
\* a formula without a result, and one whose svg is rejected, after a line of
\* text that leaves no room for the fallback text
EdgeNullParagraph == P(<<T(<<Word(400), Space>>), InlineMath("null", 0, 0)>>)
EdgeRejectedParagraph == P(<<T(<<Word(400), Space>>), InlineMath("fail", 20, 12)>>)

WrapPalette ==
    { ShortParagraph, WrappingParagraph, OversizedParagraph, OversizedFirst, MathParagraph,
      FallbackParagraph, TallLineParagraph, EdgeNullParagraph, EdgeRejectedParagraph }

InitWrap ==
    /\ variant \in {"visit", "loop"}
    /\ \E f \in Fillers : \E ct \in SeqsUpTo(WrapPalette, MaxWrapNodes) : \E tr \in Trailers :
          parsed = [title |-> "Untitled", content |-> f \o ct, citations |-> tr.citations,
                    references |-> tr.references]
    /\ settings = DEFAULT_SETTINGS
    /\ imageResolver = FALSE
    /\ RenderStart
    /\ extended = <<>>
    /\ baseline = <<>>
    /\ NormIdle
    /\ ParseIdle

NextWrap ==
    \/ FormatTitle
    \/ PassNode
    \/ FormatTableNode
    \/ CallParagraph
    \/ AfterCall
    \/ ResumeMain
    \/ FlowToken
    \/ FlowLatex
    \/ LatexResult
    \/ \E t \in DOMAIN tasks : SvgSettles(t)
    \/ FlowEnd
    \/ FormatCitation
    \/ FormatReferenceList
    \/ Output

SpecWrap == InitWrap /\ [][NextWrap]_vars

(***************************************************************************)
(* renderTableWithInlineLatex (base-formatter.ts 274-436): the scan of the *)
(* cells for formulas, then the drawing of the table.  A cell text is the  *)
(* sequence of its characters.                                             *)
(***************************************************************************)
MaxBodyRows == 1

\* value.replace(/\$\$/g, "$")
RECURSIVE normalizeLatexMarkers(_)
normalizeLatexMarkers(value) ==
    IF Len(value) >= 2 /\ value[1] = "$" /\ value[2] = "$"
    THEN <<"$">> \o normalizeLatexMarkers(SubSeq(value, 3, Len(value)))
    ELSE IF value = <<>> THEN <<>>
    ELSE <<Head(value)>> \o normalizeLatexMarkers(Tail(value))

\* the first match of /\$([^$]+)\$/ at or after position from: where it
\* starts and where it ends, 0 when there is none
LatexMatch(value, from) ==
    LET closes(p) == {q \in (p + 1)..Len(value) : value[q] = "$"}
        close(p) == CHOOSE q \in closes(p) : \A m \in closes(p) : q <= m
        S == {p \in from..Len(value) :
                 value[p] = "$" /\ closes(p) # {} /\ close(p) > p + 1}
        start == CHOOSE p \in S : \A m \in S : p <= m
    IN IF S = {} THEN [start |-> 0, end |-> 0] ELSE [start |-> start, end |-> close(start)]

\* the while loop of lines 295-305 and the rest of lines 306-309
RECURSIVE LatexSegments(_, _)
LatexSegments(normalized, lastIndex) ==
    LET match == LatexMatch(normalized, lastIndex)
    IN IF match.start = 0
       THEN IF lastIndex <= Len(normalized)
            THEN <<[type |-> "text", value |-> SubSeq(normalized, lastIndex, Len(normalized))]>>
            ELSE <<>>
       ELSE (IF match.start > lastIndex
             THEN <<[type |-> "text",
                     value |-> SubSeq(normalized, lastIndex, match.start - 1)]>>
             ELSE <<>>)
            \o <<[type |-> "latex",
                  value |-> SubSeq(normalized, match.start + 1, match.end - 1)]>>
            \o LatexSegments(normalized, match.end + 1)

splitInlineLatex(value) == LatexSegments(normalizeLatexMarkers(value), 1)

\* latexRenderer.renderInline(source) returns a result with an svg: the
\* formula y of the model is one MathJax cannot convert
HasSvg(source) == source # <<"y">>

\* if (result?.svg) latexCache.set(seg.value, result)
CachedAfter(cache, source) == IF HasSvg(source) THEN cache \cup {source} ELSE cache

\* lines 321-328: the latex segments of one cell, in order, on the cache and
\* the calls made so far
RECURSIVE ResolveSegments(_, _, _)
ResolveSegments(segs, cache, calls) ==
    IF segs = <<>> THEN [cache |-> cache, calls |-> calls]
    ELSE IF Head(segs).type # "latex" \/ Head(segs).value \in cache
    THEN ResolveSegments(Tail(segs), cache, calls)
    ELSE ResolveSegments(Tail(segs), CachedAfter(cache, Head(segs).value),
                         Append(calls, Head(segs).value))

\* the position after <<row, column>> in the scan of head and body
NextCell(at) ==
    IF at[2] < Len(cellRows[at[1]]) THEN <<at[1], at[2] + 1>> ELSE <<at[1] + 1, 1>>

\* the cell texts of the model
CellTexts ==
    { <<"a">>,
      <<"5", "$">>,
      <<"$", "x", "$">>,
      <<"a", " ", "$", "x", "$">>,
      <<"$", "y", "$">>,
      <<"$", "$", "x", "$", "$", " ", "$", "y", "$">> }

RowsOfCells == {<<a, b>> : a \in CellTexts, b \in CellTexts}

TableNodes == {<<head>> \o body : head \in RowsOfCells, body \in SeqsUpTo(RowsOfCells, MaxBodyRows)}

\* lines 280-286 and 311-315: head and body read off the node, empty maps
EnterTable(node) ==
    /\ tableNode' = node
    /\ cellRows' = node
    /\ scanAt' = <<1, 1>>
    /\ latexCache' = {}
    /\ cellRenderMap' = <<>>
    /\ resolverCalls' = <<>>
    /\ cellDraws' = <<>>
    /\ tpc' = "scan"

TableOnly == UNCHANGED <<nvars, pvars, rvars, mvars, xvars>>

CallTable ==
    /\ tpc = "idle"
    /\ \E node \in TableNodes : EnterTable(node)
    /\ UNCHANGED previousCalls
    /\ TableOnly

\* one turn of the inner loop of scanCells (lines 319-334)
ScanCell ==
    /\ tpc = "scan"
    /\ scanAt[1] <= Len(cellRows)
    /\ LET cellText == cellRows[scanAt[1]][scanAt[2]]
           segs == splitInlineLatex(cellText)
           hasLatex == \E n \in DOMAIN segs : segs[n].type = "latex"
           after == ResolveSegments(segs, latexCache, resolverCalls)
       IN IF (\A n \in DOMAIN cellText : cellText[n] # "$") \/ ~hasLatex
          THEN UNCHANGED <<cellRows, latexCache, cellRenderMap, resolverCalls>>
          ELSE /\ latexCache' = after.cache
               /\ resolverCalls' = after.calls
               /\ cellRenderMap' = Append(cellRenderMap, [key |-> scanAt, segments |-> segs])
               /\ cellRows' = [cellRows EXCEPT ![scanAt[1]][scanAt[2]] = <<>>]
    /\ scanAt' = NextCell(scanAt)
    /\ UNCHANGED <<tableNode, previousCalls, cellDraws, tpc>>
    /\ TableOnly

\* autoTable with didDrawCell (lines 341-427): a cached formula is drawn as
\* its svg, any other as the text of its source between dollar signs
DrawTable ==
    /\ tpc = "scan"
    /\ scanAt[1] > Len(cellRows)
    /\ cellDraws' =
          [n \in DOMAIN cellRenderMap |->
              [key |-> cellRenderMap[n].key,
               drew |-> [m \in DOMAIN cellRenderMap[n].segments |->
                            LET seg == cellRenderMap[n].segments[m]
                            IN IF seg.type = "text" THEN [as |-> "text", value |-> seg.value]
                               ELSE IF seg.value \in latexCache
                               THEN [as |-> "svg", value |-> seg.value]
                               ELSE [as |-> "text", value |-> <<"$">> \o seg.value \o <<"$">>]]]]
    /\ tpc' = "done"
    /\ UNCHANGED <<tableNode, cellRows, scanAt, latexCache, cellRenderMap, resolverCalls,
                   previousCalls>>
    /\ TableOnly

\* the same table rendered once more
CallTableAgain ==
    /\ tpc = "done"
    /\ previousCalls = <<>>
    /\ resolverCalls # <<>>
    /\ previousCalls' = resolverCalls
    /\ EnterTable(tableNode)
    /\ TableOnly

InitTableMath ==
    /\ NormIdle
    /\ ParseIdle
    /\ RenderIdle

NextTableMath ==
    \/ CallTable
    \/ ScanCell
    \/ DrawTable
    \/ CallTableAgain

SpecTableMath == InitTableMath /\ [][NextTableMath]_vars

(***************************************************************************)
(* The settings tab (src/src/settings.ts)                                  *)
(***************************************************************************)
\* texts typed into a margin field
Inputs == {"2", "2.5", "-1", "5", "0", "abc", "", "1.5in", " 3", "Infinity"}

Number(v) == [kind |-> "number", v |-> v]
NaN == [kind |-> "NaN", v |-> 0]
Infinity == [kind |-> "Infinity", v |-> 0]

\* parseFloat: the number a text begins with, white space skipped
parseFloat(value) ==
    CASE value = "2" -> Number(Inches(2, 0))
      [] value = "2.5" -> Number(Inches(2, 5))
      [] value = "-1" -> Number(0 - Inches(1, 0))
      [] value = "5" -> Number(Inches(5, 0))
      [] value = "0" -> Number(Inches(0, 0))
      [] value = "1.5in" -> Number(Inches(1, 5))
      [] value = " 3" -> Number(Inches(3, 0))
      [] value = "Infinity" -> Infinity
      [] OTHER -> NaN

\* a clamp that would let every number through
MathMinLeft(a, number) == IF number.kind = "Infinity" THEN a ELSE number.v

\* Math.min(max, number)
MathMin(a, number) ==
    IF number.kind = "Infinity" THEN a ELSE IF number.v < a THEN number.v ELSE a

\* Math.max(min, n)
MathMax(a, n) == IF n > a THEN n ELSE a

parseAndClamp(value, min, max, def) ==
    LET number == parseFloat(value)
    IN IF number.kind = "NaN" THEN def ELSE MathMax(min, MathMin(max, number))

SettingsOnly == UNCHANGED <<nvars, pvars, rvars, mvars, imageResolver, error, tvars>>

\* the onChange handler of a margin field
Edit(side, value) ==
    /\ settings' = [settings EXCEPT !.margins[side] =
                       parseAndClamp(value, Inches(0, 0), Inches(3, 0), Inches(1, 0))]
    /\ lastEdit' = <<[side |-> side, value |-> value, before |-> settings.margins]>>
    /\ SettingsOnly

EditTop == \E value \in Inputs : Edit("top", value)
EditRight == \E value \in Inputs : Edit("right", value)
EditBottom == \E value \in Inputs : Edit("bottom", value)
EditLeft == \E value \in Inputs : Edit("left", value)

\* the onChange handler of the style dropdown
SelectStyle ==
    /\ \E n \in DOMAIN FormatStyle :
          settings' = [settings EXCEPT !.selectedFormatStyle = FormatStyle[n]]
    /\ UNCHANGED lastEdit
    /\ SettingsOnly

InitSettings ==
    /\ NormIdle
    /\ ParseIdle
    /\ RenderIdle

NextSettings ==
    \/ EditTop
    \/ EditRight
    \/ EditBottom
    \/ EditLeft
    \/ SelectStyle

SpecSettings == InitSettings /\ [][NextSettings]_vars

(***************************************************************************)
(* The text flow on its own: documents of blocks that run a text flow,     *)
(* under a table or not, with no trailers.  The event loop runs what is    *)
(* ready to run, so a step that can be taken is taken.                     *)
(***************************************************************************)
MaxFlowNodes == 1

FlowPalette ==
    { ShortParagraph, WrappingParagraph, OversizedParagraph, OversizedFirst, MathParagraph,
      FallbackParagraph, BlankParagraph, TwoItemList, Quote }

FlowContents ==
    { f \o s : f \in {<<>>, <<Table(566)>>}, s \in SeqsUpTo(FlowPalette, MaxFlowNodes) }

InitFlow ==
    /\ InitRender
    /\ parsed.content \in FlowContents
    /\ parsed.citations = <<>>
    /\ parsed.references = <<>>

NextFlow ==
    \/ FormatTitle
    \/ SkipNode
    \/ PassNode
    \/ FormatTableNode
    \/ CallParagraph
    \/ CallList
    \/ CallBlockquote
    \/ AfterCall
    \/ ResumeMain
    \/ FlowToken
    \/ FlowLatex
    \/ LatexResult
    \/ \E t \in DOMAIN tasks : SvgSettles(t)
    \/ FlowEnd
    \/ ListNext
    \/ QuoteEnd
    \/ Output

SpecFlowFair == InitFlow /\ [][NextFlow]_vars /\ WF_vars(NextFlow)

\* every call of a block renderer has run to its end
AllSettled == \A t \in DOMAIN tasks : tasks[t].at = "done"

Finished == rpc = "done" /\ AllSettled

(***************************************************************************)
(* Two exports in a row: a document, then the same document with one more  *)
(* block in it or with one more inline node in one of its paragraphs.      *)
(***************************************************************************)
MaxMonoNodes == 1

InsertAt(s, n, x) == SubSeq(s, 1, n - 1) \o <<x>> \o SubSeq(s, n, Len(s))

\* blocks and inline nodes with something to draw
Additions == Palette \ {BlankParagraph}
InlineAdditions == { InlineMath("ok", 50, 40), Bold(<<T(<<Word(100)>>)>>) }

\* the trees with one more block, or one more inline node in a paragraph
Extensions(content) ==
    { InsertAt(content, n, x) : n \in 1..(Len(content) + 1), x \in Additions }
    \cup UNION { { [content EXCEPT ![n].children = InsertAt(@, m, x)] :
                     m \in 1..(Len(content[n].children) + 1), x \in InlineAdditions } :
                 n \in { q \in 1..Len(content) :
                           /\ content[q].type = "paragraph"
                           /\ ~IsImageParagraph(content[q]) } }

MonoContents == { f \o s : f \in Fillers, s \in SeqsUpTo(Palette, MaxMonoNodes) }

InitMono ==
    /\ variant \in {"visit", "loop"}
    /\ \E ct \in MonoContents : \E tr \in Trailers :
          /\ parsed = [title |-> "Untitled", content |-> ct, citations |-> tr.citations,
                       references |-> tr.references]
          /\ extended \in { <<[parsed EXCEPT !.content = ex]>> : ex \in Extensions(ct) }
    /\ baseline = <<>>
    /\ settings = DEFAULT_SETTINGS
    /\ imageResolver = FALSE
    /\ RenderStart
    /\ NormIdle
    /\ ParseIdle

\* the first export is over, frames and all: generatePdf runs on the longer
\* document, with a new jsPDF document and a new formatter
RenderAgain ==
    /\ Finished
    /\ extended # <<>>
    /\ baseline = <<>>
    /\ baseline' = blob
    /\ parsed' = extended[1]
    /\ nodes' = <<>>
    /\ nodeIndex' = 1
    /\ citationIndex' = 1
    /\ y' = MarginTop
    /\ formatterY' = MarginTop
    /\ pages' = 1
    /\ drawn' = <<>>
    /\ tasks' = <<>>
    /\ queue' = <<>>
    /\ cur' = Main
    /\ rpc' = "title"
    /\ blob' = <<>>
    /\ UNCHANGED <<variant, extended, nvars, pvars, xvars, tvars>>

NextMono ==
    \/ NextRender
    \/ RenderAgain

SpecMono == InitMono /\ [][NextMono]_vars

(***************************************************************************)
(* C4 -- Normalization is idempotent: preprocessMarkdown applied to the    *)
(* content that preprocessMarkdown returned gives back exactly the same    *)
(* line stream and captures no new table block.                            *)
(***************************************************************************)
C4_Idempotent ==
    npc = "redone" =>
        /\ SplitJoin(result) = first.content
        /\ tableBlocks = <<>>

(***************************************************************************)
(* C10 -- table start detection                                            *)
(***************************************************************************)
\* the condition the claim gives for input line k of the pass in progress
TableStartCondition(k) ==
    /\ IncludesPipe(LineAt(lines, k))
    /\ MatchesDivider(LineAt(lines, k + 1))

CountTag(h, tag) == Cardinality({k \in 1..Len(h) : h[k] = tag})

\* C10 as stated: every non-blank line consumed outside front-matter and
\* code-fence modes is a table start if and only if it contains the column
\* separator and the next line matches the divider pattern.
C10_EveryLineOutsideModes ==
    \A k \in 1..Len(how) :
        (Trim(lines[k]) # "" /\ how[k] \notin {"fmOpen", "fm", "fence", "code"})
            => (how[k] = "tableStart" <=> TableStartCondition(k))

\* C10 amended: every non-blank line that the scan reaches outside
\* front-matter and code-fence modes (a line already captured as the divider
\* or a row of a preceding table is never reached) is a table start if and
\* only if it contains the column separator and the next line matches the
\* divider pattern; one table block is captured per table start and none
\* otherwise; "a|b" / "---|---" is a table, "a|b" / "c|d" gives two ordinary
\* paragraphs, no table block and no placeholder.
C10_TableStartIff ==
    /\ \A k \in 1..Len(how) :
           how[k] \in {"tableStart", "content"}
               => (how[k] = "tableStart" <=> TableStartCondition(k))
    /\ Len(tableBlocks) = CountTag(how, "tableStart")
    /\ (npc \in {"done", "redone"} /\ lines = <<"a|b", "---|---">>)
           => (result = <<"[[[TABLE_0]]]">> /\ tableBlocks = << <<"a|b", "---|---">> >>)
    /\ (npc \in {"done", "redone"} /\ lines = <<"a|b", "c|d">>)
           => (result = <<"a|b", "", "c|d">> /\ tableBlocks = <<>>)

\* a line with a separator but no divider after it went through per-line
\* handling and the next line started a table
C10_Witness ==
    /\ npc = "done"
    /\ lines = <<"a|b", "c|d", "---|---", "c|d">>
    /\ how = <<"content", "tableStart", "tableRow", "tableRow">>
    /\ result = <<"a|b", "", "[[[TABLE_0]]]">>

(***************************************************************************)
(* C8, C9 -- the title                                                     *)
(***************************************************************************)
\* what the claims read off the tree the grammar returned
DeclaredTitle ==
    LET S == {k \in 1..Len(tree0) : tree0[k].type = "yaml"}
    IN IF S = {} THEN "(none)"
       ELSE LET v == tree0[CHOOSE k \in S : TRUE].value
            IN IF v = "title: X" THEN "X"
               ELSE IF v = "title: ''" THEN ""
               ELSE "(none)"

RECURSIVE FlatText(_)
FlatText(children) ==
    IF children = <<>> THEN ""
    ELSE LET c == Head(children)
         IN (IF c.type = "text" THEN c.value ELSE FlatText(c.children))
            \o FlatText(Tail(children))

IsTagOnly(node) ==
    node.type = "paragraph" /\ node.children = <<Text("#tag")>>

WithoutTags(t) == SelectSeq(t, LAMBDA node : ~IsTagOnly(node))

\* the level-1 headings that have a text
Level1(t) ==
    {k \in 1..Len(t) : /\ t[k].type = "heading"
                       /\ t[k].depth = 1
                       /\ FlatText(t[k].children) # ""}

Without(t, k) == SubSeq(t, 1, k - 1) \o SubSeq(t, k + 1, Len(t))

C9_TitleFromFirstH1 ==
    (ppc = "done" /\ DeclaredTitle = "(none)")
        => IF Level1(tree0) # {}
           THEN LET k == CHOOSE h \in Level1(tree0) : \A m \in Level1(tree0) : h <= m
                IN /\ title = FlatText(tree0[k].children)
                   /\ tree = WithoutTags(Without(tree0, k))
           ELSE /\ title = "Untitled"
                /\ tree = WithoutTags(tree0)

(***************************************************************************)
(* C1 -- block renders never overlap: generatePdf neither reads            *)
(* formatter.y back nor goes on to the next node or to the trailers while  *)
(* the render of a node is still under way, and at most one render is      *)
(* under way at any time.                                                  *)
(***************************************************************************)
Unsettled == {t \in DOMAIN tasks : tasks[t].at # "done"}

C1_RendersNeverOverlap ==
    /\ Cardinality(Unsettled) <= 1
    /\ (cur = Main /\ rpc # "called") => Unsettled = {}

(***************************************************************************)
(* C2 -- every line of a text flow, the first line included, is drawn only *)
(* where it fits: no token of a flow is drawn at a y with                  *)
(* y + lineHeight > pageHeight - bottomMargin.                             *)
(***************************************************************************)
FlowMarks == {n \in 1..Len(drawn) : drawn[n].src = "flow"}

C2_PageBreakBeforeEveryLine ==
    \A n \in FlowMarks : drawn[n].y + LineHeightPt <= PageLimit

(***************************************************************************)
(* C3 -- the text flow terminates and a token wider than a whole line is   *)
(* wrapped at most once and then drawn at the line-start offset: every     *)
(* token drawn after a wrap, and every token wider than the line it is     *)
(* drawn on, starts at firstLineX on a first line and at subsequentLineX   *)
(* on a later line; and every run ends with all flows finished.            *)
(***************************************************************************)
Oversized(e) == e.lineStart + e.w > MaxWidth

C3_AtLineStart ==
    \A n \in FlowMarks :
        (drawn[n].wrapped \/ Oversized(drawn[n])) => drawn[n].x = drawn[n].lineStart

C3_FlowTerminates == []C3_AtLineStart /\ <>[]Finished

\* an oversized token was wrapped and drawn at the start of a later line
C3_Witness ==
    /\ Finished
    /\ \E n \in FlowMarks :
        /\ Oversized(drawn[n])
        /\ drawn[n].wrapped
        /\ drawn[n].x = MarginLeft

(***************************************************************************)
(* C5 -- the trailers come last and in order: no body draw follows a       *)
(* citation or the reference list, no citation follows the reference list, *)
(* citations are drawn in list order, and nothing is drawn after the       *)
(* document was serialized to the blob.                                    *)
(***************************************************************************)
Rank(src) ==
    IF src = "citation" THEN 1
    ELSE IF src \in {"references", "reference"} THEN 2
    ELSE 0

C5_TrailersLast ==
    /\ \A m, n \in 1..Len(drawn) : m < n => Rank(drawn[m].src) <= Rank(drawn[n].src)
    /\ \A m, n \in 1..Len(drawn) :
           (m < n /\ drawn[m].src = "citation" /\ drawn[n].src = "citation")
               => drawn[m].node < drawn[n].node
    /\ blob # <<>> => blob[1].draws = Len(drawn)

(***************************************************************************)
(* C6 -- the step that draws a heading tagged isReferenceSection adds a    *)
(* page and draws the heading at the top margin of that new page; the step *)
(* that draws an untagged heading adds a page only if the cursor had       *)
(* passed the bottom limit, and otherwise draws at the cursor.             *)
(***************************************************************************)
C6_HeadingStep ==
    (Len(drawn') = Len(drawn) + 1 /\ drawn'[Len(drawn')].src = "heading") =>
        LET e == drawn'[Len(drawn')]
        IN IF nodes[e.node].data.isReferenceSection
           THEN pages' > pages /\ e.page = pages' /\ e.y = MarginTop
           ELSE /\ pages' > pages => y > PageLimit
                /\ y <= PageLimit => (e.y = y /\ e.page = pages)

C6_ForcedBreakBeforeReferenceHeading == [][C6_HeadingStep]_vars

\* a tagged heading was drawn at the top of a page added for it, below
\* which the cursor had not been
C6_Witness ==
    \E n \in 1..Len(drawn) :
        /\ drawn[n].src = "heading"
        /\ nodes[drawn[n].node].data.isReferenceSection
        /\ drawn[n].page = 2
        /\ drawn[n].y = MarginTop
        /\ n > 1
        /\ drawn[n - 1].y + LineHeightPt <= PageLimit

(***************************************************************************)
(* C7 -- page count is monotonic in content: the output of the export of   *)
(* a document with more content in it has at least as many pages as the    *)
(* output of the export of the document.                                   *)
(***************************************************************************)
C7_PagesMonotone ==
    (baseline # <<>> /\ blob # <<>>) => blob[1].pages >= baseline[1].pages

(***************************************************************************)
(* C11 -- the citation list parseMarkdown returns has one entry per        *)
(* occurrence of the marker [@key] in the text runs of the returned tree,  *)
(* in document order, duplicates kept.                                     *)
(***************************************************************************)
\* the text runs of a tree, in document order
RECURSIVE TextRuns(_)
TextRuns(ns) ==
    IF ns = <<>> THEN <<>>
    ELSE (IF Head(ns).type = "text" THEN <<Head(ns).value>> ELSE <<>>)
         \o TextRuns(Head(ns).children) \o TextRuns(Tail(ns))

\* a marker starts at p: an opening bracket, an at sign, a key that is not
\* empty, a closing bracket
MarkerEnd(chars, p) ==
    LET S == {q \in (p + 2)..Len(chars) : chars[q] = "]"}
    IN IF S = {} THEN 0 ELSE CHOOSE q \in S : \A m \in S : q <= m

OpensMarker(chars, p) ==
    /\ p + 1 <= Len(chars)
    /\ chars[p] = "[" /\ chars[p + 1] = "@"
    /\ MarkerEnd(chars, p) # 0

\* p lies inside a marker that starts before it
InsideMarker(chars, p) ==
    \E o \in 1..(p - 1) : OpensMarker(chars, o) /\ p <= MarkerEnd(chars, o)

RECURSIVE KeysFrom(_, _)
KeysFrom(chars, p) ==
    IF p > Len(chars) THEN <<>>
    ELSE (IF /\ OpensMarker(chars, p)
             /\ ~InsideMarker(chars, p)
             /\ MarkerEnd(chars, p) > p + 2
          THEN <<SubSeq(chars, p + 2, MarkerEnd(chars, p) - 1)>>
          ELSE <<>>)
         \o KeysFrom(chars, p + 1)

RECURSIVE KeysOfRuns(_)
KeysOfRuns(runs) ==
    IF runs = <<>> THEN <<>>
    ELSE KeysFrom(Chars(Head(runs)), 1) \o KeysOfRuns(Tail(runs))

C11_CitationsInDocumentOrder ==
    ppc = "done" => citations = KeysOfRuns(TextRuns(tree))

\* the two markers of the example, then a key cited twice and a marker in
\* bold text
C11_Witness ==
    /\ ppc = "done"
    /\ tree = <<Paragraph(<<Text("see [@smith2020] and [@lee99]")>>),
                Paragraph(<<Text("[@a] then [@a]"), Strong(<<Text("[@b]")>>)>>)>>
    /\ citations = << <<"s", "m", "i", "t", "h", "2", "0", "2", "0">>,
                      <<"l", "e", "e", "9", "9">>, <<"a">>, <<"a">>, <<"b">> >>

(***************************************************************************)
(* C12 -- the reference list is built from the first level-2 heading whose *)
(* text is a reference synonym (in any case) and the first list after it:  *)
(* one string per list item, the flattened inline content of the item, in  *)
(* list order; without such a heading and list it is empty.                *)
(***************************************************************************)
SynonymHeading(node) ==
    /\ node.type = "heading"
    /\ node.depth = 2
    /\ TrimChars(toLowerCase(Chars(FlatText(node.children)))) \in REFERENCE_SECTION_KEYWORDS

\* the first list after the first synonym heading, 0 when there is none
ListAfterHeading(t) ==
    LET hs == {n \in 1..Len(t) : SynonymHeading(t[n])}
        ls == {n \in 1..Len(t) : t[n].type = "list" /\ \E h \in hs : h < n}
    IN IF ls = {} THEN 0 ELSE CHOOSE n \in ls : \A m \in ls : n <= m

FlatItems(t) ==
    IF ListAfterHeading(t) = 0 THEN <<>>
    ELSE LET items == t[ListAfterHeading(t)].children
         IN [n \in DOMAIN items |-> FlatText(items[n].children)]

C12_ReferencesFlattened ==
    ppc \in {"done", "threw"} => (ppc = "done" /\ references = FlatItems(tree))

(***************************************************************************)
(* C13 -- the tagging pass and the extraction pass agree on every heading: *)
(* a heading carries the isReferenceSection tag if and only if the         *)
(* extraction pass accepts it as a reference heading, so a tagged heading  *)
(* followed by a list never leaves the reference list empty.               *)
(***************************************************************************)
TaggingDone == ppc \in {"citations", "references", "done", "threw"}

C13_PassesAgree ==
    /\ TaggingDone =>
         \A n \in DOMAIN tree :
            tree[n].type = "heading" =>
                (tree[n].data.isReferenceSection <=> IsReferenceHeading(tree[n]))
    /\ ppc = "done" =>
         \A n \in DOMAIN tree :
            (/\ tree[n].type = "heading"
             /\ tree[n].data.isReferenceSection
             /\ \E m \in DOMAIN tree : m > n /\ tree[m] = EntryList)
                => references # <<>>

(***************************************************************************)
(* C14 -- when no formatter exists for the selected format style,          *)
(* generatePdf fails as a whole before any content is drawn: it throws,    *)
(* no blob is returned, and the error names the valid format options.      *)
(***************************************************************************)
C14_UnsupportedStyleFailsWithOptions ==
    /\ ~HasFormatter(settings.selectedFormatStyle) => (drawn = <<>> /\ blob = <<>>)
    /\ (~HasFormatter(settings.selectedFormatStyle) /\ rpc # "title") =>
          /\ rpc = "threw"
          /\ error # <<>>
          /\ \E n \in DOMAIN error[1].formats : HasFormatter(error[1].formats[n])

(***************************************************************************)
(* C18 -- for every style of the enumeration (APA and MLA) the render      *)
(* selects the formatter at its start and proceeds: a formatter is created *)
(* for every style that isFormatSupported and getAvailableFormats report.  *)
(***************************************************************************)
C18_FormatterForEveryStyle ==
    /\ \A n \in DOMAIN getAvailableFormats : isFormatSupported(getAvailableFormats[n])
    /\ isFormatSupported(settings.selectedFormatStyle) => rpc # "threw"

(***************************************************************************)
(* C15 -- a failing image or math resolution is never fatal: when the      *)
(* image resolver or the math renderer gives null or throws, the block     *)
(* renderer draws a bracketed placeholder, no exception leaves the block   *)
(* renderer, and generatePdf goes on and returns a document.               *)
(***************************************************************************)
\* the formulas of a paragraph flow that were handed to the math renderer
\* without a drawable result, the flow being past them
FailedFormulas(t) ==
    {j \in 1..(tasks[t].ii - 1) :
        tasks[t].iterations[j].latex /\ tasks[t].iterations[j].measure.res # "ok"}

Placeholders(t, src) == {n \in 1..Len(drawn) : drawn[n].src = src /\ drawn[n].node = t}

C15_MathFailureNotFatal ==
    \A t \in DOMAIN tasks :
        tasks[t].kind = "paragraph" =>
            Cardinality(Placeholders(t, "fallback")) = Cardinality(FailedFormulas(t))

Sides == {"top", "right", "bottom", "left"}

MarginsInRange ==
    \A side \in Sides :
        settings.margins[side] >= Inches(0, 0) /\ settings.margins[side] <= Inches(3, 0)

OthersUnchanged ==
    lastEdit # <<>> =>
        \A side \in Sides \ {lastEdit[1].side} :
            settings.margins[side] = lastEdit[1].before[side]

\* the texts of the model that are not a number
NonNumeric == {"abc", "", "1.5in"}

\* C16 as stated: and a non-numeric input sets the edited margin to the
\* default 1.
C16_NonNumericGivesDefault ==
    /\ MarginsInRange
    /\ OthersUnchanged
    /\ (lastEdit # <<>> /\ lastEdit[1].value \in NonNumeric) =>
          settings.margins[lastEdit[1].side] = Inches(1, 0)

\* C16 amended: and an input that does not begin with a number sets the
\* edited margin to the default 1, while an input that begins with a number
\* sets it to that number, clamped to [0, 3], whatever text follows the
\* number.
C16_LeadingNumberOrDefault ==
    /\ MarginsInRange
    /\ OthersUnchanged
    /\ (lastEdit # <<>> /\ lastEdit[1].value \in {"abc", ""}) =>
          settings.margins[lastEdit[1].side] = Inches(1, 0)
    /\ (lastEdit # <<>> /\ lastEdit[1].value = "1.5in") =>
          settings.margins[lastEdit[1].side] = Inches(1, 5)
    /\ (lastEdit # <<>> /\ lastEdit[1].value \in {"5", "Infinity"}) =>
          settings.margins[lastEdit[1].side] = Inches(3, 0)
    /\ (lastEdit # <<>> /\ lastEdit[1].value = "-1") =>
          settings.margins[lastEdit[1].side] = Inches(0, 0)

\* the bottom margin was 2.5, the other margins were edited too, and the
\* text abc has put the bottom margin back to 1
C16_Witness ==
    /\ lastEdit # <<>>
    /\ lastEdit[1].side = "bottom"
    /\ lastEdit[1].value = "abc"
    /\ lastEdit[1].before =
          [top |-> Inches(3, 0), right |-> Inches(0, 0), bottom |-> Inches(2, 5),
           left |-> Inches(1, 5)]
    /\ settings.margins = [lastEdit[1].before EXCEPT !.bottom = Inches(1, 0)]

(***************************************************************************)
(* C17 -- when renderTextFlowWithIndent returns, the cursor y is the y of  *)
(* the last rendered line plus one line height of that line, for every     *)
(* segment list; the flow adds no other gap after its last line.           *)
(***************************************************************************)
\* what the flow of node t has drawn
Rendered(t) ==
    {n \in 1..Len(drawn) : drawn[n].node = t /\ drawn[n].src \in {"flow", "fallback", "svg"}}

\* the y of the line of draw n of the flow f: a formula is drawn from the
\* top of its box, text on the line
LineOf(n, f) ==
    IF drawn[n].src = "svg"
    THEN LET ok == {j \in 1..Len(f.iterations) :
                       f.iterations[j].latex /\ f.iterations[j].measure.res = "ok"}
             last == CHOOSE j \in ok : \A m \in ok : j >= m
         IN drawn[n].y - FontSize + f.iterations[last].measure.height
    ELSE drawn[n].y

C17_FlowReturn ==
    \A t \in DOMAIN tasks :
        (/\ tasks[t].kind = "paragraph"
         /\ tasks[t].at = "flow"
         /\ cur = Frame(t)
         /\ tasks'[t].at = "done")
            => IF Rendered(t) = {}
               THEN formatterY' = formatterY + LineHeightPt
               ELSE LET n == CHOOSE r \in Rendered(t) : \A m \in Rendered(t) : r >= m
                    IN /\ pages = drawn[n].page
                       /\ formatterY' = LineOf(n, tasks[t]) + tasks[t].currentLineHeight

C17_OneLineHeightPastLastLine == [][C17_FlowReturn]_vars

(***************************************************************************)
(* C19 -- at every step of the line scan the mode is exactly one of        *)
(* front-matter, code-fence, normal: the two flags are never both true;    *)
(* front-matter mode is entered only on line index 0 trimming to ---, is   *)
(* closed by a second --- line, after which exactly one blank line is      *)
(* emitted, and is never entered again; a code-fence marker inside         *)
(* front-matter is passed through verbatim and toggles nothing.            *)
(***************************************************************************)
C19_ModesExclusive == ~(inFrontmatter /\ inCodeBlock)

C19_ScanStep ==
    Scanning =>
        /\ (~inFrontmatter /\ inFrontmatter') =>
              (i = 1 /\ Trim(lines[1]) = "---" /\ result' = Append(result, lines[1]))
        /\ (~inFrontmatter /\ i > 1) => ~inFrontmatter'
        /\ (inFrontmatter /\ ~inFrontmatter') =>
              (Trim(lines[i]) = "---" /\ result' = result \o <<lines[i], "">>)
        /\ inFrontmatter =>
              /\ inCodeBlock' = inCodeBlock
              /\ Trim(lines[i]) # "---" =>
                    (inFrontmatter' /\ result' = Append(result, lines[i]))

C19_ThreeExclusiveModes == []C19_ModesExclusive /\ [][C19_ScanStep]_vars

\* a front-matter block with a fence marker in it, closed, then a content line
C19_Witness ==
    /\ npc = "done"
    /\ lines = <<"---", "[fence]", "---", "text">>
    /\ result = <<"---", "[fence]", "---", "", "text">>
    /\ ~inFrontmatter
    /\ ~inCodeBlock

(***************************************************************************)
(* C20 -- every line emitted in normal mode (content line, display-math    *)
(* span, table placeholder) is the first emitted line or is preceded by    *)
(* exactly one blank line; blank input lines outside front-matter and code *)
(* fences never reach the output; outside the verbatim regions no two      *)
(* content lines and no two blank lines are adjacent.                      *)
(***************************************************************************)
IsBlankLine(l) == Trim(l) = ""

\* the lines this step has appended to the output
Emitted == (Len(result) + 1)..Len(result')

C20_NormalStep ==
    (Scanning /\ ContentMode) =>
        /\ \E k \in 0..Len(result') : SubSeq(result', 1, k) = result
        /\ IsBlankLine(lines[i]) => result' = result
        /\ \A p \in Emitted :
              IF IsBlankLine(result'[p])
              THEN p > 1 /\ ~IsBlankLine(result'[p - 1])
              ELSE \/ p = 1
                   \/ /\ IsBlankLine(result'[p - 1])
                      /\ p > 2
                      /\ ~IsBlankLine(result'[p - 2])

C20_OneBlankBeforeEveryLine == [][C20_NormalStep]_vars

\* front-matter, then a line with a display-math span, then a content line
C20_Witness ==
    /\ npc = "done"
    /\ lines = <<"---", "---", "p $$m$$ q", "text">>
    /\ result = <<"---", "---", "", "p", "", "$$m$$", "", "q", "", "text">>

(***************************************************************************)
(* C21 -- for the k-th detected table the stream receives exactly one      *)
(* placeholder line [[[TABLE_k]]]; tableBlocks[k] holds the header line,   *)
(* the divider line and the following non-blank lines with a column        *)
(* separator, up to the first blank line or line without one; no captured  *)
(* line is emitted; the scan resumes after the block; the number of        *)
(* placeholder lines in the stream equals the length of tableBlocks.       *)
(***************************************************************************)
IsPlaceholderLine(l) == \E n \in 0..MaxTableLines : l = Placeholder(n)

PlaceholderLines(res) == {p \in DOMAIN res : IsPlaceholderLine(res[p])}

C21_TableStep ==
    (Scanning /\ tableBlocks' # tableBlocks) =>
        LET block == tableBlocks'[Len(tableBlocks')]
            added == SubSeq(result', Len(result) + 1, Len(result'))
        IN /\ tableBlocks' = Append(tableBlocks, block)
           /\ SubSeq(result', 1, Len(result)) = result
           /\ added \in { <<Placeholder(Len(tableBlocks))>>,
                          <<"", Placeholder(Len(tableBlocks))>> }
           /\ i' >= i + 2
           /\ Len(block) = i' - i
           /\ block[1] = RewriteEmbeds(lines[i])
           /\ block[2] = LineAt(lines, i + 1)
           /\ \A n \in (i + 2)..(i' - 1) :
                 /\ Trim(lines[n]) # ""
                 /\ IncludesPipe(lines[n])
                 /\ block[n - i + 1] = RewriteEmbeds(lines[n])
           /\ i' <= Len(lines) => (Trim(lines[i']) = "" \/ ~IncludesPipe(lines[i']))

C21_AsManyPlaceholdersAsBlocks ==
    Cardinality(PlaceholderLines(result)) = Len(tableBlocks)

C21_TableCapture == []C21_AsManyPlaceholdersAsBlocks /\ [][C21_TableStep]_vars

C21_StepsOnly == [][C21_TableStep]_vars

C21_NoPlaceholderText ==
    (\A n \in DOMAIN lines : ~IsPlaceholderLine(lines[n])) => C21_AsManyPlaceholdersAsBlocks

(***************************************************************************)
(* C22 -- every table node resolved from a placeholder is rectangular:     *)
(* the header row and every body row have as many cells as the header line *)
(* has columns; a shorter body row is padded on the right with empty       *)
(* cells, a longer one is truncated, the divider line gives no row, and    *)
(* the cells that remain keep their order.                                 *)
(***************************************************************************)
\* the cells written on a line of the model, read off the line
CellsWritten(l) ==
    CASE l = "a|b" -> <<"a", "b">>
      [] l = "| a | b |" -> <<"a", "b">>
      [] l = "c|d" -> <<"c", "d">>
      [] l = "|c|" -> <<"c">>
      [] l = "c|d|e" -> <<"c", "d", "e">>
      [] l = "---|---" -> <<"---", "---">>

CellIs(cell, text) ==
    /\ cell.type = "tableCell"
    /\ cell.children = IF text = "" THEN <<>> ELSE <<Text(text)>>

RowIs(row, l, columns) ==
    /\ row.type = "tableRow"
    /\ Len(row.children) = columns
    /\ \A n \in 1..columns :
          CellIs(row.children[n],
                 IF n <= Len(CellsWritten(l)) THEN CellsWritten(l)[n] ELSE "")

\* the block a node of the grammar's tree stands for, 0 when it stands for none
BlockOf(node) ==
    LET S == {b \in DOMAIN tableBlocks :
                 node = Paragraph(<<Text(Placeholder(b - 1))>>)}
    IN IF S = {} THEN 0 ELSE CHOOSE b \in S : TRUE

C22_TablesRectangular ==
    ppc \notin {"idle", "tables"} =>
        \A n \in DOMAIN tree :
            /\ tree[n].type = "table" <=> BlockOf(tree0[n]) # 0
            /\ BlockOf(tree0[n]) # 0 =>
                  LET block == tableBlocks[BlockOf(tree0[n])]
                      rows == tree[n].children
                      columns == Len(CellsWritten(block[1]))
                  IN /\ Len(rows) = Len(block) - 1
                     /\ RowIs(rows[1], block[1], columns)
                     /\ \A r \in 2..Len(rows) : RowIs(rows[r], block[r + 1], columns)

\* a header with outer separators, a short row and a long row, resolved
C22_Witness ==
    /\ ppc = "done"
    /\ tableBlocks = << <<"| a | b |", "---|---", "|c|", "c|d|e">> >>
    /\ Len(tree) = 1
    /\ tree[1].type = "table"
    /\ Len(tree[1].children) = 3

(***************************************************************************)
(* C23 -- in the text flow a line break is committed exactly when placing  *)
(* the next token (text token or math graphic) would pass the right limit  *)
(* and x is beyond the offset of the current line; the break advances y by *)
(* the height of the line being left (the larger of the base line height   *)
(* and the tallest formula placed on it), resets x to the offset of        *)
(* subsequent lines and the line height to the base height, and then       *)
(* evaluates the page-break condition.                                     *)
(***************************************************************************)
RECURSIVE Tallest(_, _)
Tallest(base, heights) ==
    IF heights = <<>> THEN base
    ELSE Tallest(IF Head(heights) > base THEN Head(heights) ELSE base, Tail(heights))

\* the flow t is about to place something w wide
AboutToPlace(t, w) ==
    \/ /\ cur = Frame(t)
       /\ tasks[t].at = "flow"
       /\ tasks[t].ii <= Len(tasks[t].iterations)
       /\ ~tasks[t].iterations[tasks[t].ii].latex
       /\ tasks[t].iterations[tasks[t].ii].token.s # "empty"
       /\ w = tasks[t].iterations[tasks[t].ii].token.w
    \/ /\ cur = EventLoop
       /\ queue # <<>>
       /\ Head(queue) = t
       /\ tasks[t].at = "latex"
       /\ tasks[t].iterations[tasks[t].ii].measure.res # "null"
       /\ w = tasks[t].iterations[tasks[t].ii].measure.width

C23_Placement(t, w) ==
    LET f == tasks[t]
        g == tasks'[t]
        beyond == /\ f.currentX + w > PageWidth - MarginRight
                  /\ f.currentX > (IF f.isFirstLine THEN f.firstLineX ELSE f.subsequentLineX)
        left == Tallest(LineHeightPt, f.lineMath)
        over == formatterY + left + LineHeightPt > PageHeight - MarginBottom
    IN IF beyond
       THEN /\ formatterY' = IF over THEN MarginTop ELSE formatterY + left
            /\ pages' = IF over THEN pages + 1 ELSE pages
            /\ ~g.isFirstLine
            /\ g.currentLineHeight = LineHeightPt
            /\ g.currentX \in {f.subsequentLineX, f.subsequentLineX + w}
       ELSE /\ formatterY' = formatterY
            /\ pages' = pages
            /\ g.isFirstLine = f.isFirstLine
            /\ g.currentLineHeight = f.currentLineHeight
            /\ g.currentX \in {f.currentX, f.currentX + w}

\* the widths of the model
Widths == {0, 3, 20, 50, 90, 100, 300, 400, 430, 450, 500}

\* this step is the flow t placing something w wide
Placing(t, w) == AboutToPlace(t, w) /\ tasks'[t] # tasks[t]

C23_FlowStep ==
    \A t \in DOMAIN tasks :
        /\ \A w \in Widths : Placing(t, w) => C23_Placement(t, w)
        /\ (tasks[t].isFirstLine /\ ~tasks'[t].isFirstLine) => \E w \in Widths : Placing(t, w)
        /\ (\A w \in Widths : ~Placing(t, w)) =>
              (tasks[t].kind = tasks'[t].kind => tasks'[t].currentLineHeight >= tasks[t].currentLineHeight)

C23_BreakExactlyAtRightLimit == [][C23_FlowStep]_vars

\* a word wrapped off a line that a formula had made taller than the base
C23_Witness ==
    \E t \in DOMAIN tasks :
        /\ nodes[t] = TallLineParagraph
        /\ tasks[t].at = "done"
        /\ \E a, b \in DOMAIN drawn :
              /\ a < b
              /\ drawn[a].node = t /\ drawn[a].src = "svg" /\ drawn[a].x = MarginLeft
              /\ drawn[b].node = t /\ drawn[b].src = "flow" /\ drawn[b].w = 450
              /\ drawn[b].wrapped

(***************************************************************************)
(* C24 -- the placeholder of a formula that could not be sized or rendered *)
(* is drawn under the wrapping rule of a text token: where it would pass   *)
(* the right limit with x beyond the offset of the line, a line break is   *)
(* taken before it is drawn; x then advances by its width.                 *)
(***************************************************************************)
\* what the wrapping rule leaves of a draw of a text flow: it passes the
\* right limit only if it starts the line
WrapsLikeText(mark) ==
    mark.x + mark.w > PageWidth - MarginRight => mark.x <= mark.lineStart

InTextFlow(mark) == mark.lineStart # 0

C24_FallbackWrapsLikeText ==
    \A n \in DOMAIN drawn :
        (drawn[n].src = "fallback" /\ InTextFlow(drawn[n])) => WrapsLikeText(drawn[n])

C24_TokensWrap ==
    \A n \in DOMAIN drawn :
        (drawn[n].src \in {"flow", "svg"} /\ InTextFlow(drawn[n])) => WrapsLikeText(drawn[n])

C24_FallbackAdvancesStep ==
    \A t \in DOMAIN tasks :
        (/\ Len(drawn') = Len(drawn) + 1
         /\ drawn'[Len(drawn')].src = "fallback"
         /\ drawn'[Len(drawn')].node = t
         /\ InTextFlow(drawn'[Len(drawn')]))
        => tasks'[t].currentX = drawn'[Len(drawn')].x + drawn'[Len(drawn')].w

C24_FallbackAdvances == [][C24_FallbackAdvancesStep]_vars

(***************************************************************************)
(* C25 -- within one table render the math resolver is invoked at most     *)
(* once per distinct math source, however many cells hold the source and   *)
(* whether or not the resolution succeeds; the cache is created per table  *)
(* render and is not reused across renders.                                *)
(***************************************************************************)
CallsFor(source) == {n \in DOMAIN resolverCalls : resolverCalls[n] = source}

C25_ResolvedOncePerSource ==
    \A n \in DOMAIN resolverCalls : Cardinality(CallsFor(resolverCalls[n])) <= 1

C25_OncePerConvertibleSource ==
    \A n \in DOMAIN resolverCalls :
        HasSvg(resolverCalls[n]) => Cardinality(CallsFor(resolverCalls[n])) <= 1

C25_CacheNotReused ==
    (tpc = "done" /\ previousCalls # <<>>) => resolverCalls = previousCalls

(***************************************************************************)
(* C26  dispatch of the tree nodes to the block renderers                  *)
(***************************************************************************)
\* the number of nodes the visitor is called on before it reaches the
\* top-level child number n of the content: the root and the subtrees of the
\* children before it
RECURSIVE VisitedBefore(_, _)
VisitedBefore(content, n) ==
    IF n = 1 THEN 1
    ELSE VisitedBefore(content, n - 1) + Len(PreOrder(content[n - 1]))

\* the node at index n of the node list is a direct child of the root
IsTopLevel(n) ==
    IF variant = "visit"
    THEN \E m \in 1..Len(parsed.content) : n = VisitedBefore(parsed.content, m) + 1
    ELSE TRUE

\* generatePdf is at a node with content that its switch has a case for: its
\* next step calls the block renderer of the node
AtBlockRenderer ==
    /\ AtNode
    /\ hasContent(nodes[nodeIndex])
    /\ nodes[nodeIndex].type \in Cases

C26_DispatchStep == AtBlockRenderer => IsTopLevel(nodeIndex)

\* C26: generatePdf dispatches each top-level node that has content to its
\* block renderer once, in document order, and a node nested inside a
\* top-level block (a paragraph of a list item or of a blockquote) is never
\* dispatched to a block renderer on its own.
C26_TopLevelOnly == [][C26_DispatchStep]_vars

C26_OrderStep ==
    /\ nodeIndex' # nodeIndex => nodeIndex' = nodeIndex + 1
    /\ (AtNode /\ ~hasContent(nodes[nodeIndex])) =>
          /\ drawn' = drawn
          /\ tasks' = tasks
          /\ formatterY' = formatterY
          /\ pages' = pages

\* C26, the part that holds: the node list is walked once, forward, one node
\* at a time, and a paragraph that is empty or holds white space only is
\* passed over without a call, a draw or a page break.
C26_InOrderNeverEmpty == [][C26_OrderStep]_vars

(***************************************************************************)
(* C27  the lines of the citation pass                                     *)
(***************************************************************************)
\* the draws of formatCitation, in the order they were made
CitationMarks == SelectSeq(drawn, LAMBDA mark : mark.src = "citation")

\* C27: the citations are drawn at distinct, strictly increasing vertical
\* positions of their page: of two citation lines on one page the later one
\* is lower, and no two are drawn at the same y.
C27_CitationsBelowEachOther ==
    \A a, b \in 1..Len(CitationMarks) :
        (a < b /\ CitationMarks[a].page = CitationMarks[b].page)
            => CitationMarks[a].y < CitationMarks[b].y

\* C27, the part that holds: once the citation pass is over there is one line
\* per key, in collection order.
C27_OneLinePerKey ==
    /\ Len(CitationMarks) = citationIndex - 1
    /\ \A n \in 1..Len(CitationMarks) : CitationMarks[n].node = n
    /\ rpc \in {"output", "done"} => Len(CitationMarks) = Len(parsed.citations)

(***************************************************************************)
(* C28  no text below the bottom margin                                    *)
(***************************************************************************)
\* the draws that are doc.text calls of the title, a heading, a text flow
\* (tokens, list items, placeholders), a citation or the reference list
TextSources == {"title", "heading", "flow", "fallback", "citation", "references", "reference"}

\* C28: every text draw (title, heading, text-flow token, list item, citation,
\* reference entry, placeholder) is at a baseline y <= pageHeight -
\* bottomMargin: nothing is drawn below the bottom margin of its page.
C28_NothingBelowBottomMargin ==
    \A n \in 1..Len(drawn) :
        drawn[n].src \in TextSources => drawn[n].y <= PageLimit

\* C28, the part that holds: the title, the headings and every wrapped line
\* of a flow or of a reference entry are above the bottom margin.
C28_CheckedDrawsAboveMargin ==
    \A n \in 1..Len(drawn) :
        \/ drawn[n].src \in {"title", "heading"}
        \/ drawn[n].src \in {"flow", "reference"} /\ drawn[n].wrapped
        => drawn[n].y <= PageLimit

(***************************************************************************)
(* C29  no empty page                                                      *)
(***************************************************************************)
\* something was drawn on page p
HasDraw(p) == \E n \in 1..Len(drawn) : drawn[n].page = p

\* C29: a render never produces an empty page: every page received at least
\* one drawn item before the next page was added, and the last page has one
\* when the render ends.
C29_NoEmptyPage ==
    /\ \A p \in 1..(pages - 1) : HasDraw(p)
    /\ rpc = "done" => HasDraw(pages)

C29_BreakStep ==
    /\ pages' \in {pages, pages + 1, pages + 2}
    /\ pages' = pages + 2 =>
          /\ AtCase("heading")
          /\ ForcedBreak(nodes[nodeIndex])
          /\ y > PageLimit
    /\ (AtCase("heading") /\ ForcedBreak(nodes[nodeIndex]) /\ y <= PageLimit) =>
          pages' = pages + 1

\* C29, the part that holds: a step adds two pages only at a reference-section
\* heading reached with the cursor below the bottom margin, and the forced
\* break adds exactly one page when the cursor is above it.
C29_TwoPagesOnlyAtOverflowingHeading == [][C29_BreakStep]_vars

(***************************************************************************)
(* C30  the normalizer keeps the content of every line, once               *)
(***************************************************************************)
\* the characters of a line that are not blanks
Ink(l) == SelectSeq(Chars(l), LAMBDA char : char # " ")

\* the ink of a sequence of lines, in order
RECURSIVE InkOf(_)
InkOf(ls) == IF ls = <<>> THEN <<>> ELSE Ink(Head(ls)) \o InkOf(Tail(ls))

Rewritten(ls) == [n \in 1..Len(ls) |-> RewriteEmbeds(ls[n])]

IsPrefix(s, t) == Len(s) <= Len(t) /\ SubSeq(t, 1, Len(s)) = s

\* one step of the scan: it consumes the lines from i up to the new i, at
\* least one; what it appends to the stream or captures in a new table block
\* is the content of these lines, verbatim or with the embeds rewritten, and
\* nothing written before is touched
C30_ScanStep ==
    (Scanning /\ i' # i /\ lines' = lines) =>
        LET consumed == SubSeq(lines, i, i' - 1)
            emitted == SubSeq(result', Len(result) + 1, Len(result'))
            captured == SubSeq(tableBlocks', Len(tableBlocks) + 1, Len(tableBlocks'))
        IN /\ i' > i
           /\ i' <= Len(lines) + 1
           /\ IsPrefix(result, result')
           /\ IsPrefix(tableBlocks, tableBlocks')
           /\ Len(captured) <= 1
           /\ IF captured = <<>>
              THEN InkOf(emitted) \in {InkOf(consumed), InkOf(Rewritten(consumed))}
              ELSE /\ SelectSeq(emitted, LAMBDA l : Trim(l) # "")
                        = <<Placeholder(Len(tableBlocks))>>
                   /\ Len(captured[1]) = Len(consumed)
                   /\ \A n \in 1..Len(consumed) :
                         Ink(captured[1][n]) = Ink(RewriteEmbeds(consumed[n]))

\* C30: the normalizer neither loses nor duplicates content: every scan step
\* consumes the next lines of the input, moving the index forward, and puts
\* their content once, in input order, in the line stream (verbatim, with
\* embeds rewritten, or split around display-math spans) or in one captured
\* table block; and preprocessMarkdown terminates.
C30_ContentKeptAndTerminates == [][C30_ScanStep]_vars /\ <>(npc = "done")

\* a scan that split a line around a display-math span, rewrote an embed and
\* captured a table has returned
C30_Witness ==
    /\ npc = "done"
    /\ Len(tableBlocks) = 1
    /\ tableBlocks[1][1] = "![](i%20m)|x"
    /\ \E n \in 1..Len(result) : result[n] = "$$m$$"
    /\ \E n \in 1..Len(result) : result[n] = "q"
====
